---- MODULE Spec2Model ----
(***************************************************************************)
(* Tiered cache (cache.util: ioredis tier, Upstash REST tier, in-process   *)
(* LRU tier, cache-mode flag) and the dedup guard (dedup.service) of the   *)
(* audit-log microservice, with the write handler that uses both.          *)
(*                                                                         *)
(* Every async function is cut at its awaits: one action is the code that  *)
(* runs between two awaits (Node runs it without interleaving), and the    *)
(* effect of the awaited tier call is taken at the step that resumes.      *)
(***************************************************************************)
EXTENDS Integers, Sequences, FiniteSets, TLC

VARIABLES
    enableCache,          \* ENABLE_CACHE === 'true'
    restUrl,              \* UPSTASH_REDIS_REST_URL is set
    restToken,            \* UPSTASH_REDIS_REST_TOKEN is set
    currentCacheMode,     \* 'redis' | 'lru' | 'disabled'
    redisClient,          \* cache.util's ioredis client is non-null
    startupMessageShown,
    console,              \* the mode lines the latest callback, or the load, wrote
    conn,                 \* the ioredis connection: "wait", "up", "down", "end"
    retries,              \* consecutive reconnect attempts (retryStrategy's times)
    delay,                \* what retryStrategy last returned: ms, StopRetrying, 0 if none pending
    redis,                \* persistent-connection tier: key -> text or Null
    rest,                 \* HTTP tier: key -> text or Null
    lru,                  \* in-process tier: key -> text or Null
    lruExp,               \* in-process tier: key -> instant its entry goes stale, 0 if none
    fast,                 \* dedup fast tier: event id -> expiry instant of the sentinel, 0 if none
    durable,              \* eventDedup table: event id -> record or NoRecord
    auditLogs,            \* auditLog table: the rows created, in order
    now,                  \* the clock, in seconds
    ticks,                \* clock advances so far
    task,                 \* the calls in flight: task id -> frame
    calls,                \* calls started so far
    lastSet,              \* history: key -> value of the most recent completed setCache
    seq,                  \* history: task id -> its uninterrupted run of calls
    phase                 \* the process: "running", in gracefulShutdown, "exited"

vars == <<enableCache, restUrl, restToken, currentCacheMode, redisClient,
          startupMessageShown, console, conn, retries, delay, redis, rest, lru,
          lruExp, fast,
          durable,
          auditLogs, now, ticks, task, calls, lastSet, seq, phase>>

config == <<enableCache, restUrl, restToken, redisClient>>
tiers == <<redis, rest, lru, lruExp>>
client == <<currentCacheMode, startupMessageShown, console, conn, retries, delay>>
dedup == <<fast, durable, auditLogs>>
clock == <<now, ticks>>

----------------------------------------------------------------------------
(* Bounds *)

MaxCalls == 3    \* façade calls started in one behaviour
MaxGuardCalls == 3 \* dedup-guard calls started in one behaviour
MaxRequests == 2 \* write requests started in one behaviour
MaxTicks == 2    \* clock advances in one behaviour

Tasks == {1, 2}  \* concurrent callers
Callers == {1}   \* the single caller of Spec and SpecDedup

----------------------------------------------------------------------------
(* Strings are sequences of tokens, so that substring and glob matching    *)
(* are computed and not assumed.                                           *)

KeyStatsA == <<"audit", ":", "stats", ":", "a">>
KeyStatsAHash == <<"audit", ":", "stats", ":", "a", "#", "x">>
Keys == {KeyStatsA, KeyStatsAHash}

PatSummaries == <<"audit", ":", "summaries", ":", "*">>
PatStats == <<"audit", ":", "stats", ":", "*">>
PatRecent == <<"audit", ":", "recent", ":", "*">>
PatService(serviceName) == <<"audit", ":", "*", "serviceName", "*", serviceName, "*">>

\* String.prototype.includes
Includes(s, p) ==
    \E i \in 0..(Len(s) - Len(p)) : SubSeq(s, i + 1, i + Len(p)) = p

\* Redis KEYS glob, for patterns made of literals and '*'
RECURSIVE GlobMatch(_, _)
GlobMatch(p, s) ==
    IF p = <<>> THEN s = <<>>
    ELSE IF Head(p) = "*"
         THEN GlobMatch(Tail(p), s) \/ (s # <<>> /\ GlobMatch(p, Tail(s)))
         ELSE s # <<>> /\ Head(s) = Head(p) /\ GlobMatch(Tail(p), Tail(s))

----------------------------------------------------------------------------
(* JavaScript values and their JSON texts *)

Null == "<null>"                 \* JS null / undefined; never a JSON text
SyntaxError == "<SyntaxError>"   \* JSON.parse threw
JsZero == "js:0"
JsObj == "js:{}"
Values == {Null, JsZero, JsObj}

JSONstringify(v) ==
    CASE v = Null -> "null"
      [] v = JsZero -> "0"
      [] v = JsObj -> "{}"

JSONparse(s) ==
    CASE s = "null" -> Null
      [] s = "0" -> JsZero
      [] s = "{}" -> JsObj
      [] OTHER -> SyntaxError

\* a truthiness test that takes the text "0" for the number 0
TruthyOfNumber(s) == s \notin {Null, "", "0"}

\* if (value) on a string or null
Truthy(s) == s # Null /\ s # ""

----------------------------------------------------------------------------
(* Frames of the calls in flight *)

AnyValue == "<any>"
NoRecord == [sourceService |-> "", expiresAt |-> 0]
EventIds == {"e1"}              \* the non-empty event ids
Services == {"finance", "hr"}   \* req.serviceName

IdleFrame ==
    [op |-> "none", pc |-> "idle", key |-> <<>>, val |-> Null, pat |-> <<>>,
     ret |-> Null, cnt |-> 0, dup |-> FALSE, raised |-> FALSE, err |-> {},
     scan |-> {}, amb |-> FALSE, eventId |-> "", sourceService |-> "",
     at |-> 0, rec |-> FALSE, resp |-> "none", inv |-> 0,
     comp |-> 0, wr |-> 0, had |-> {}, ns |-> <<>>, params |-> <<>>,
     net |-> {}, pats |-> {}]

\* history: what is kept of the call that ran before the current one
Earlier(tk) ==
    [op |-> tk.op, key |-> tk.key, val |-> tk.val, err |-> tk.err,
     eventId |-> tk.eventId, sourceService |-> tk.sourceService,
     pat |-> tk.pat, comp |-> tk.comp, cnt |-> tk.cnt, dup |-> tk.dup]
NoRun == [n |-> 0, prev |-> Earlier(IdleFrame)]

Free(t) == task[t].pc \in {"idle", "done"}
InFlight(t) == ~Free(t)
Done(tk) == [tk EXCEPT !.pc = "done"]

\* history: t starts a call; the run of every other task is broken
SeqStart(t) ==
    [u \in Tasks |->
        IF u = t
        THEN [n |-> IF seq[t].n >= 1 THEN 2 ELSE 1,
              prev |-> Earlier(IF seq[t].n >= 1 THEN task[t] ELSE IdleFrame)]
        ELSE NoRun]
\* history: t takes a step of its call
SeqStep(t) == [u \in Tasks |-> IF u = t THEN seq[t] ELSE NoRun]
\* history: a connectivity event, a clock advance or an eviction
SeqEvent == [u \in Tasks |-> NoRun]

Empty == [k \in Keys |-> Null]
NoExpiry == [k \in Keys |-> 0]

----------------------------------------------------------------------------
(* The state once the modules are loaded: initializeRedis() has run *)

MaxRetryTimes == 3
\* DEFAULT_TTL, in seconds, with CACHE_TTL_SECONDS unset
DefaultTtl == 300
RetryStepMs == 50
RetryCapMs == 2000
\* return null: the client gives up and ends
StopRetrying == -1

Init ==
    /\ enableCache \in BOOLEAN
    /\ restUrl \in BOOLEAN
    /\ restToken \in BOOLEAN
    /\ restToken => restUrl         \* a token is read only next to a URL
    /\ \/ /\ ~enableCache            \* ENABLE_CACHE off: no client is built
          /\ redisClient = FALSE
          /\ currentCacheMode = "disabled"
          /\ startupMessageShown = TRUE
          /\ console = <<"banner">>
          /\ conn = "end"
       \/ /\ enableCache             \* new Redis(...) returned, handlers registered
          /\ redisClient = TRUE
          /\ currentCacheMode = "disabled"
          /\ startupMessageShown = FALSE
          /\ console = <<>>
          /\ conn = "wait"
       \/ /\ enableCache             \* new Redis(...) threw
          /\ redisClient = FALSE
          /\ currentCacheMode = "lru"
          /\ startupMessageShown = TRUE
          /\ console = <<"error", "banner">>
          /\ conn = "end"
    /\ retries = 0
    /\ delay = 0
    /\ redis = Empty
    /\ rest = Empty
    /\ lru = Empty
    /\ lruExp = NoExpiry
    /\ fast = [e \in EventIds |-> 0]
    /\ durable = [e \in EventIds |-> NoRecord]
    /\ auditLogs = <<>>
    /\ now = 0
    /\ ticks = 0
    /\ task = [t \in Tasks |-> IdleFrame]
    /\ calls = 0
    /\ lastSet = [k \in Keys |-> AnyValue]
    /\ seq = [t \in Tasks |-> NoRun]
    /\ phase = "running"

----------------------------------------------------------------------------
(* Connectivity callbacks of the ioredis client *)

\* a connect callback that shows the banner and leaves the mode alone
OnConnectKeepsMode ==
    /\ redisClient /\ conn = "wait"
    /\ conn' = "up"
    /\ retries' = 0
    /\ delay' = 0
    /\ startupMessageShown' = TRUE
    /\ console' = IF startupMessageShown THEN <<>> ELSE <<"banner">>
    /\ seq' = SeqEvent
    /\ UNCHANGED <<config, phase, tiers, dedup, clock, task, calls, lastSet, currentCacheMode>>

\* redisClient.on('connect')
OnConnect ==
    /\ redisClient /\ conn = "wait"
    /\ conn' = "up"
    /\ retries' = 0
    /\ delay' = 0
    /\ currentCacheMode' = "redis"
    /\ startupMessageShown' = TRUE
    /\ console' = IF startupMessageShown THEN <<>> ELSE <<"banner">>
    /\ seq' = SeqEvent
    /\ UNCHANGED <<config, phase, tiers, dedup, clock, task, calls, lastSet>>

\* redisClient.on('error')
OnError ==
    /\ redisClient /\ conn \in {"wait", "up", "down"}
    /\ currentCacheMode' = "lru"
    /\ console' = <<"error">>
    /\ seq' = SeqEvent
    /\ UNCHANGED <<config, phase, tiers, dedup, clock, task, calls, lastSet,
                   startupMessageShown, conn, retries, delay>>

\* a close callback that only records the lost connection
OnCloseKeepsMode ==
    /\ redisClient /\ conn \in {"wait", "up"}
    /\ conn' = "down"
    /\ console' = <<>>
    /\ seq' = SeqEvent
    /\ UNCHANGED <<config, phase, tiers, dedup, clock, task, calls, lastSet,
                   startupMessageShown, retries, delay, currentCacheMode>>

\* redisClient.on('close')
OnClose ==
    /\ redisClient /\ conn \in {"wait", "up"}
    /\ conn' = "down"
    /\ currentCacheMode' = "lru"
    /\ console' = <<>>
    /\ seq' = SeqEvent
    /\ UNCHANGED <<config, phase, tiers, dedup, clock, task, calls, lastSet,
                   startupMessageShown, retries, delay>>

\* Math.min(times * 50, 2000)
RetryDelay(times) == IF times * RetryStepMs < RetryCapMs THEN times * RetryStepMs ELSE RetryCapMs

\* a strategy that asks for the same pause before every attempt
RetryStrategyFlat ==
    /\ redisClient /\ conn = "down"
    /\ LET times == retries + 1 IN
         IF times > MaxRetryTimes
         THEN /\ startupMessageShown' = TRUE
              /\ console' = IF startupMessageShown THEN <<>> ELSE <<"banner">>
              /\ currentCacheMode' = "lru"
              /\ conn' = "end"
              /\ delay' = StopRetrying
              /\ UNCHANGED retries
         ELSE /\ conn' = "wait"
              /\ retries' = times
              /\ delay' = RetryStepMs
              /\ console' = <<>>
              /\ UNCHANGED <<startupMessageShown, currentCacheMode>>
    /\ seq' = SeqEvent
    /\ UNCHANGED <<config, phase, tiers, dedup, clock, task, calls, lastSet>>

\* retryStrategy(times), called by the client after a close
RetryStrategy ==
    /\ redisClient /\ conn = "down"
    /\ LET times == retries + 1 IN
         IF times > MaxRetryTimes
         THEN /\ startupMessageShown' = TRUE
              /\ console' = IF startupMessageShown THEN <<>> ELSE <<"banner">>
              /\ currentCacheMode' = "lru"
              /\ conn' = "end"
              /\ delay' = StopRetrying
              /\ UNCHANGED retries
         ELSE /\ conn' = "wait"
              /\ retries' = times
              /\ delay' = RetryDelay(times)
              /\ console' = <<>>
              /\ UNCHANGED <<startupMessageShown, currentCacheMode>>
    /\ seq' = SeqEvent
    /\ UNCHANGED <<config, phase, tiers, dedup, clock, task, calls, lastSet>>

----------------------------------------------------------------------------
(* Outcomes of a call on a networked tier *)

\* a command on the ioredis client is answered only over a live connection;
\* it may be rejected at any time
RedisOutcomes == IF conn = "up" THEN {"ok", "fail"} ELSE {"fail"}
\* a fetch to the REST endpoint is answered or fails
RestOutcomes == {"ok", "fail"}
\* restGet / restSet / restDel return at once without URL and token
RestConfigured == restUrl /\ restToken

\* the façade with invalidatePattern left unguarded
CacheTryScopeOpen == {"restGet", "restSet", "restDel", "getCache", "setCache",
                      "deleteCache", "clearAll"}

\* the functions whose body is wrapped in try/catch: a throw inside one of
\* them is logged and swallowed
CacheTryScope == {"restGet", "restSet", "restDel", "getCache", "setCache",
                  "deleteCache", "invalidatePattern", "clearAll"}
\* the dedup service with isDuplicate left unguarded
DedupTryScopeOpen == {"markAsProcessed", "cleanupExpired"}

DedupTryScope == {"isDuplicate", "markAsProcessed", "cleanupExpired"}
TryScope == CacheTryScope \cup DedupTryScope

Caught(fn) == fn \in TryScope

\* an exception leaves the function the frame was called for: the controller's
\* catch answers 500, any other caller sees it raised
Escape(tk, e) ==
    IF tk.op \in {"createAuditLogHandler", "triggerAggregationHandler"}
    THEN Done([tk EXCEPT !.err = @ \cup {e}, !.resp = "500"])
    ELSE Done([tk EXCEPT !.err = @ \cup {e}, !.raised = TRUE])

\* a call starts on a free task
Begin(t) == Free(t) /\ calls < MaxCalls
BeginGuard(t) == Free(t) /\ calls < MaxGuardCalls
BeginRequest(t) == Free(t) /\ calls < MaxRequests

----------------------------------------------------------------------------
(* getCache *)

\* a withCache that takes every falsy cached value for a miss
GetAfterIfTruthy(tk, v) ==
    IF tk.op = "withCache" /\ v \in {Null, JsZero}
    THEN [tk EXCEPT !.ret = Null, !.pc = "wc_compute"]
    ELSE Done([tk EXCEPT !.ret = v])

\* a withCache that writes a hit back to refresh it
GetAfterRefresh(tk, v) ==
    IF tk.op = "withCache" /\ v = Null
    THEN [tk EXCEPT !.ret = Null, !.pc = "wc_compute"]
    ELSE Done([tk EXCEPT !.ret = v, !.wr = IF tk.op = "withCache" THEN 1 ELSE 0])

\* getCache returns v: to its caller, or into withCache, which returns a hit
\* (cached !== null) and goes on to fetchFunction() on a miss
GetAfter(tk, v) ==
    IF tk.op = "withCache" /\ v = Null
    THEN [tk EXCEPT !.ret = Null, !.pc = "wc_compute"]
    ELSE Done([tk EXCEPT !.ret = v])

\* return JSON.parse(text) outside any try
GetParsedRaises(tk, text) ==
    IF JSONparse(text) = SyntaxError THEN Escape(tk, "parse")
    ELSE GetAfter(tk, JSONparse(text))

\* return JSON.parse(text), inside getCache's try
GetParsed(tk, text) ==
    IF JSONparse(text) = SyntaxError
    THEN IF Caught("getCache")
         THEN GetAfter([tk EXCEPT !.err = @ \cup {"parse"}], Null)
         ELSE Escape(tk, "parse")
    ELSE GetAfter(tk, JSONparse(text))

\* an entry of the in-process tier is within its ttl
LruFresh(k) == lru[k] # Null /\ now <= lruExp[k]

\* lruCache.get(key) and the return
GetLru(tk) ==
    IF LruFresh(tk.key) /\ Truthy(lru[tk.key]) THEN GetParsed(tk, lru[tk.key])
    ELSE GetAfter(tk, Null)

\* what lruCache.get(k) does to the tier: a stale entry is dropped, a fresh one
\* has its age restarted (updateAgeOnGet)
LruGet(k) ==
    IF lru[k] = Null THEN UNCHANGED <<lru, lruExp>>
    ELSE IF LruFresh(k)
         THEN /\ lruExp' = [lruExp EXCEPT ![k] = now + DefaultTtl]
              /\ UNCHANGED lru
         ELSE /\ lru' = [lru EXCEPT ![k] = Null]
              /\ lruExp' = [lruExp EXCEPT ![k] = 0]

\* the call reaches lruCache.get from the REST check
LruAfterRedis == ~(currentCacheMode = "lru" /\ restUrl)
\* the call reaches lruCache.get without an await
LruAtBegin ==
    enableCache /\ ~(currentCacheMode = "redis" /\ redisClient) /\ LruAfterRedis

\* from the REST check on: await restGet, or the LRU read
GetAfterRedis(tk) ==
    IF currentCacheMode = "lru" /\ restUrl
    THEN [tk EXCEPT !.pc = "get_rest"]
    ELSE GetLru(tk)

\* history: a setCache on k is in flight on another task
SetInFlight(t, k) ==
    \E u \in Tasks \ {t} :
        InFlight(u) /\ task[u].op = "setCache" /\ task[u].key = k

\* the body of getCache(key) up to its first await
GetBegin(tk) ==
    IF ~enableCache THEN GetAfter(tk, Null)
    ELSE IF currentCacheMode = "redis" /\ redisClient
         THEN [tk EXCEPT !.pc = "get_redis"]
         ELSE GetAfterRedis(tk)

GetStart(t, k) ==
    /\ Begin(t)
    /\ task' = [task EXCEPT ![t] =
                  GetBegin([IdleFrame EXCEPT !.op = "getCache", !.key = k,
                                             !.amb = SetInFlight(t, k)])]
    /\ IF LruAtBegin THEN LruGet(k) ELSE UNCHANGED <<lru, lruExp>>
    /\ calls' = calls + 1
    /\ seq' = SeqStart(t)
    /\ UNCHANGED <<config, phase, client, redis, rest, dedup, clock, lastSet>>

\* a getCache that gives up the persistent tier when its read fails
GetRedisDemotes(t) ==
    /\ task[t].pc = "get_redis"
    /\ \E o \in RedisOutcomes :
         /\ task' = [task EXCEPT ![t] =
               IF o = "fail"
               THEN GetAfter([@ EXCEPT !.err = @ \cup {"redis"}], Null)
               ELSE IF Truthy(redis[@.key]) THEN GetParsed(@, redis[@.key])
                    ELSE GetAfterRedis(@)]
         /\ currentCacheMode' = IF o = "fail" THEN "lru" ELSE currentCacheMode
         /\ IF o = "ok" /\ ~Truthy(redis[task[t].key]) /\ LruAfterRedis
            THEN LruGet(task[t].key) ELSE UNCHANGED <<lru, lruExp>>
    /\ seq' = SeqStep(t)
    /\ UNCHANGED <<config, phase, startupMessageShown, console, conn, retries, delay, redis, rest, dedup, clock,
                   calls, lastSet>>

\* await redisClient.get(key) resumes
GetRedis(t) ==
    /\ task[t].pc = "get_redis"
    /\ \E o \in RedisOutcomes :
         /\ task' = [task EXCEPT ![t] =
               IF o = "fail"
               THEN IF Caught("getCache")
                    THEN GetAfter([@ EXCEPT !.err = @ \cup {"redis"}], Null)
                    ELSE Escape(@, "redis")
               ELSE IF Truthy(redis[@.key]) THEN GetParsed(@, redis[@.key])
                    ELSE GetAfterRedis(@)]
         /\ IF o = "ok" /\ ~Truthy(redis[task[t].key]) /\ LruAfterRedis
            THEN LruGet(task[t].key) ELSE UNCHANGED <<lru, lruExp>>
    /\ seq' = SeqStep(t)
    /\ UNCHANGED <<config, phase, client, redis, rest, dedup, clock, calls, lastSet>>

\* the fetch of a REST helper failed: its own catch logs it, or it is thrown
\* into the façade function that awaits the helper
RestFailed(o) == RestConfigured /\ o = "fail"
RestThrown(helper, o) == RestFailed(o) /\ ~Caught(helper)
\* history: the frame remembers the HTTP-tier failure
RestNoted(tk, o) == IF RestFailed(o) THEN [tk EXCEPT !.err = @ \cup {"rest"}] ELSE tk

\* the key the endpoint reads for GET `${UPSTASH_REST_URL}/get/${key}`: the
\* key is put in the URL as it is, and the path of a URL ends at the first
\* '?' or '#'
RECURSIVE UrlPathKey(_)
UrlPathKey(k) ==
    IF k = <<>> \/ Head(k) \in {"?", "#"} THEN <<>>
    ELSE <<Head(k)>> \o UrlPathKey(Tail(k))

\* restGet(key): data.result || null; null without configuration or on a failed fetch
RestGetResult(k, o) ==
    IF ~RestConfigured \/ o = "fail" THEN Null
    ELSE IF UrlPathKey(k) \in Keys /\ Truthy(rest[UrlPathKey(k)])
         THEN rest[UrlPathKey(k)] ELSE Null

\* await restGet(key) resumes
GetRest(t) ==
    /\ task[t].pc = "get_rest"
    /\ \E o \in RestOutcomes :
         LET tk == RestNoted(task[t], o)
             value == RestGetResult(tk.key, o) IN
         /\ task' = [task EXCEPT ![t] =
               IF RestThrown("restGet", o)
               THEN IF Caught("getCache") THEN GetAfter(tk, Null)
                    ELSE Escape(tk, "rest")
               ELSE IF Truthy(value) THEN GetParsed(tk, value) ELSE GetLru(tk)]
         /\ IF ~RestThrown("restGet", o) /\ ~Truthy(value)
            THEN LruGet(tk.key) ELSE UNCHANGED <<lru, lruExp>>
    /\ seq' = SeqStep(t)
    /\ UNCHANGED <<config, phase, client, redis, rest, dedup, clock, calls, lastSet>>

----------------------------------------------------------------------------
(* setCache *)

\* history: the value the most recent completed setCache(k, .) wrote, when that
\* call ran alone on k and met no tier error
SetDone(tk) ==
    [lastSet EXCEPT ![tk.key] = IF tk.amb \/ tk.err # {} THEN AnyValue ELSE tk.val]

\* history: t starts setCache(k, .): every call in flight on k overlaps it
Overlap(t, k, tk) ==
    [u \in Tasks |->
        IF u = t THEN tk
        ELSE IF InFlight(u) /\ task[u].op \in {"getCache", "setCache"} /\ task[u].key = k
             THEN [task[u] EXCEPT !.amb = TRUE]
             ELSE task[u]]

\* history: the call has written a networked tier
Wrote(tk, tier) == [tk EXCEPT !.net = @ \cup {tier}]

\* setCache returns: to its caller, or into withCache, which returns data
SetAfter(tk) ==
    IF tk.op = "withCache" THEN Done([tk EXCEPT !.ret = tk.val])
    ELSE Done(tk)

\* lruCache.set(key, stringValue) and the return
SetLru(t, tk) ==
    /\ lru' = [lru EXCEPT ![tk.key] = JSONstringify(tk.val)]
    /\ lruExp' = [lruExp EXCEPT ![tk.key] = now + DefaultTtl]
    /\ task' = Overlap(t, tk.key, SetAfter([tk EXCEPT !.at = now]))
    /\ lastSet' = SetDone(tk)

\* from the REST check on: await restSet, or the LRU write
SetAfterRedis(t, tk) ==
    IF currentCacheMode = "lru" /\ restUrl
    THEN /\ task' = Overlap(t, tk.key, [tk EXCEPT !.pc = "set_rest"])
         /\ UNCHANGED <<lru, lruExp, lastSet>>
    ELSE SetLru(t, tk)

\* a setCache that goes on with the cache turned off
SetBeginAlways(t, tk) ==
    IF currentCacheMode = "redis" /\ redisClient
    THEN /\ task' = Overlap(t, tk.key, [tk EXCEPT !.pc = "set_redis"])
         /\ UNCHANGED <<lru, lruExp, lastSet>>
    ELSE SetAfterRedis(t, tk)

\* the body of setCache(key, value) up to its first await
SetBegin(t, tk) ==
    IF ~enableCache
    THEN /\ task' = [task EXCEPT ![t] = SetAfter(tk)]
         /\ UNCHANGED <<lru, lruExp, lastSet>>
    ELSE IF currentCacheMode = "redis" /\ redisClient
         THEN /\ task' = Overlap(t, tk.key, [tk EXCEPT !.pc = "set_redis"])
              /\ UNCHANGED <<lru, lruExp, lastSet>>
         ELSE SetAfterRedis(t, tk)

SetStart(t, k, v) ==
    /\ Begin(t)
    /\ SetBegin(t, [IdleFrame EXCEPT !.op = "setCache", !.key = k, !.val = v,
                                     !.amb = SetInFlight(t, k)])
    /\ calls' = calls + 1
    /\ seq' = SeqStart(t)
    /\ UNCHANGED <<config, phase, client, redis, rest, dedup, clock>>

\* await redisClient.set(key, stringValue, 'EX', ttl) resumes
SetRedis(t) ==
    /\ task[t].pc = "set_redis"
    /\ \E o \in RedisOutcomes :
         IF o = "fail"
         THEN /\ task' = [task EXCEPT ![t] =
                    IF Caught("setCache")
                    THEN SetAfter([@ EXCEPT !.err = @ \cup {"redis"}])
                    ELSE Escape(@, "redis")]
              /\ lastSet' = SetDone([task[t] EXCEPT !.err = @ \cup {"redis"}])
              /\ UNCHANGED <<redis, lru, lruExp>>
         ELSE /\ redis' = [redis EXCEPT ![task[t].key] = JSONstringify(task[t].val)]
              /\ SetAfterRedis(t, Wrote(task[t], "redis"))
    /\ seq' = SeqStep(t)
    /\ UNCHANGED <<config, phase, client, rest, dedup, clock, calls>>

\* await restSet(key, stringValue, ttl) resumes
SetRest(t) ==
    /\ task[t].pc = "set_rest"
    /\ \E o \in RestOutcomes :
         /\ rest' = IF RestConfigured /\ o = "ok"
                    THEN [rest EXCEPT ![task[t].key] = JSONstringify(task[t].val)]
                    ELSE rest
         /\ IF RestThrown("restSet", o)
            THEN /\ task' = [task EXCEPT ![t] =
                       IF Caught("setCache") THEN SetAfter(RestNoted(@, o))
                       ELSE Escape(@, "rest")]
                 /\ lastSet' = SetDone(RestNoted(task[t], o))
                 /\ UNCHANGED <<lru, lruExp>>
            ELSE SetLru(t, IF RestConfigured /\ o = "ok"
                           THEN Wrote(task[t], "rest")
                           ELSE RestNoted(task[t], o))
    /\ seq' = SeqStep(t)
    /\ UNCHANGED <<config, phase, client, redis, dedup, clock, calls>>

----------------------------------------------------------------------------
(* withCache *)

\* what fetchFunction() resolves to; it may also reject
Computed == {JsZero, JsObj}
ComputeOutcomes == Computed \cup {"reject"}

\* withCache(key, fetchFunction) up to the first await of getCache
WithCacheStart(t, k) ==
    /\ Begin(t)
    /\ task' = [task EXCEPT ![t] =
                  GetBegin([IdleFrame EXCEPT !.op = "withCache", !.key = k,
                                             !.amb = SetInFlight(t, k)])]
    /\ IF LruAtBegin THEN LruGet(k) ELSE UNCHANGED <<lru, lruExp>>
    /\ calls' = calls + 1
    /\ seq' = SeqStart(t)
    /\ UNCHANGED <<config, phase, client, redis, rest, dedup, clock, lastSet>>

\* a fetchFunction whose rejection is swallowed: withCache returns null
WithCacheComputeSwallow(t) ==
    /\ task[t].pc = "wc_compute"
    /\ \E r \in ComputeOutcomes :
         IF r = "reject"
         THEN /\ task' = [task EXCEPT ![t] =
                    Done([@ EXCEPT !.comp = @ + 1, !.err = @ \cup {"compute"}])]
              /\ UNCHANGED <<lru, lruExp, lastSet>>
         ELSE SetBegin(t, [task[t] EXCEPT !.comp = @ + 1, !.val = r, !.wr = @ + 1])
    /\ seq' = SeqStep(t)
    /\ UNCHANGED <<config, phase, client, redis, rest, dedup, clock, calls>>

\* await fetchFunction() resumes: a rejection leaves withCache uncaught, a
\* result goes to setCache(key, data, ttl)
WithCacheCompute(t) ==
    /\ task[t].pc = "wc_compute"
    /\ \E r \in ComputeOutcomes :
         IF r = "reject"
         THEN /\ task' = [task EXCEPT ![t] =
                    Escape([@ EXCEPT !.comp = @ + 1], "compute")]
              /\ UNCHANGED <<lru, lruExp, lastSet>>
         ELSE SetBegin(t, [task[t] EXCEPT !.comp = @ + 1, !.val = r, !.wr = @ + 1])
    /\ seq' = SeqStep(t)
    /\ UNCHANGED <<config, phase, client, redis, rest, dedup, clock, calls>>

----------------------------------------------------------------------------
(* deleteCache *)

\* lruCache.delete(key) and the return
DelLru(t, tk) ==
    /\ lru' = [lru EXCEPT ![tk.key] = Null]
    /\ lruExp' = [lruExp EXCEPT ![tk.key] = 0]
    /\ task' = [task EXCEPT ![t] = Done(tk)]

DelAfterRedis(t, tk) ==
    IF currentCacheMode = "lru" /\ restUrl
    THEN /\ task' = [task EXCEPT ![t] = [tk EXCEPT !.pc = "del_rest"]]
         /\ UNCHANGED <<lru, lruExp>>
    ELSE DelLru(t, tk)

DeleteStart(t, k) ==
    /\ Begin(t)
    /\ LET tk == [IdleFrame EXCEPT !.op = "deleteCache", !.key = k] IN
       IF ~enableCache
       THEN /\ task' = [task EXCEPT ![t] = Done(tk)]
            /\ UNCHANGED <<lru, lruExp>>
       ELSE IF currentCacheMode = "redis" /\ redisClient
            THEN /\ task' = [task EXCEPT ![t] = [tk EXCEPT !.pc = "del_redis"]]
                 /\ UNCHANGED <<lru, lruExp>>
            ELSE DelAfterRedis(t, tk)
    /\ calls' = calls + 1
    /\ seq' = SeqStart(t)
    /\ UNCHANGED <<config, phase, client, redis, rest, dedup, clock, lastSet>>

\* await redisClient.del(key) resumes
DeleteRedis(t) ==
    /\ task[t].pc = "del_redis"
    /\ \E o \in RedisOutcomes :
         IF o = "fail"
         THEN /\ task' = [task EXCEPT ![t] =
                    IF Caught("deleteCache")
                    THEN Done([@ EXCEPT !.err = @ \cup {"redis"}])
                    ELSE Escape(@, "redis")]
              /\ UNCHANGED <<redis, lru, lruExp>>
         ELSE /\ redis' = [redis EXCEPT ![task[t].key] = Null]
              /\ DelAfterRedis(t, task[t])
    /\ seq' = SeqStep(t)
    /\ UNCHANGED <<config, phase, client, rest, dedup, clock, calls, lastSet>>

\* await restDel(key) resumes
DeleteRest(t) ==
    /\ task[t].pc = "del_rest"
    /\ \E o \in RestOutcomes :
         /\ rest' = IF RestConfigured /\ o = "ok"
                    THEN [rest EXCEPT ![task[t].key] = Null]
                    ELSE rest
         /\ IF RestThrown("restDel", o)
            THEN /\ task' = [task EXCEPT ![t] =
                       IF Caught("deleteCache") THEN Done(RestNoted(@, o))
                       ELSE Escape(@, "rest")]
                 /\ UNCHANGED <<lru, lruExp>>
            ELSE DelLru(t, RestNoted(task[t], o))
    /\ seq' = SeqStep(t)
    /\ UNCHANGED <<config, phase, client, redis, dedup, clock, calls, lastSet>>

----------------------------------------------------------------------------
(* invalidatePattern *)

Patterns == {PatStats, <<"stats">>}

\* Array.from(lruCache.keys()).filter(key => key.includes(pattern))
LruMatches(pattern) == {k \in Keys : LruFresh(k) /\ Includes(k, pattern)}
\* redisClient.keys(pattern)
RedisMatches(pattern) == {k \in Keys : redis[k] # Null /\ GlobMatch(pattern, k)}

\* invalidatePattern and the wrappers that return what it returns
InvalidateOps ==
    {"invalidatePattern", "invalidateSummaries", "invalidateStats", "invalidateRecent"}

\* history: the keys held, when a call starts, by the tier invalidatePattern
\* scans in the current mode
Scanned ==
    IF enableCache /\ currentCacheMode = "redis" /\ redisClient
    THEN {k \in Keys : redis[k] # Null}
    ELSE {k \in Keys : lru[k] # Null}

\* invalidatePattern returns n: to its caller, or into the controller that awaits it
InvAfter(tk, n) ==
    IF tk.op \in InvalidateOps
    THEN Done([tk EXCEPT !.cnt = n])
    ELSE [tk EXCEPT !.cnt = n, !.inv = @ + 1,
                    !.pc = IF tk.op = "triggerAggregationHandler" THEN "agg_inv"
                           ELSE "h_inv"]

\* the body of invalidatePattern(pattern) up to its first await
InvBegin(t, tk, pattern) ==
    IF ~enableCache \/ currentCacheMode # "redis" \/ ~redisClient
    THEN IF currentCacheMode = "lru"
         THEN /\ lru' = [k \in Keys |-> IF k \in LruMatches(pattern) THEN Null ELSE lru[k]]
              /\ lruExp' = [k \in Keys |-> IF k \in LruMatches(pattern) THEN 0 ELSE lruExp[k]]
              /\ task' = [task EXCEPT ![t] =
                            InvAfter([tk EXCEPT !.pat = pattern],
                                     Cardinality(LruMatches(pattern)))]
         ELSE /\ task' = [task EXCEPT ![t] = InvAfter([tk EXCEPT !.pat = pattern], 0)]
              /\ UNCHANGED <<lru, lruExp>>
    ELSE /\ task' = [task EXCEPT ![t] = [tk EXCEPT !.pat = pattern, !.pc = "inv_keys"]]
         /\ UNCHANGED <<lru, lruExp>>

InvalidateStart(t, pattern) ==
    /\ Begin(t)
    /\ InvBegin(t, [IdleFrame EXCEPT !.op = "invalidatePattern", !.had = Scanned], pattern)
    /\ calls' = calls + 1
    /\ seq' = SeqStart(t)
    /\ UNCHANGED <<config, phase, client, redis, rest, dedup, clock, lastSet>>

\* a wrapper: return await invalidatePattern(pattern)
InvalidateWrapper(t, fn, pattern) ==
    /\ Begin(t)
    /\ InvBegin(t, [IdleFrame EXCEPT !.op = fn, !.had = Scanned], pattern)
    /\ calls' = calls + 1
    /\ seq' = SeqStart(t)
    /\ UNCHANGED <<config, phase, client, redis, rest, dedup, clock, lastSet>>

InvalidateSummariesStart(t) == InvalidateWrapper(t, "invalidateSummaries", PatSummaries)
InvalidateStatsStart(t) == InvalidateWrapper(t, "invalidateStats", PatStats)
InvalidateRecentStart(t) == InvalidateWrapper(t, "invalidateRecent", PatRecent)

\* a throw inside invalidatePattern's try: return 0
InvThrow(tk, e) ==
    IF Caught("invalidatePattern")
    THEN InvAfter([tk EXCEPT !.err = @ \cup {e}], 0)
    ELSE Escape(tk, e)

\* await redisClient.keys(pattern) resumes
InvalidateKeys(t) ==
    /\ task[t].pc = "inv_keys"
    /\ \E o \in RedisOutcomes :
         task' = [task EXCEPT ![t] =
            IF o = "fail" THEN InvThrow(@, "redis")
            ELSE IF RedisMatches(task[t].pat) # {}
                 THEN [@ EXCEPT !.scan = RedisMatches(task[t].pat), !.pc = "inv_del"]
                 ELSE InvAfter(@, 0)]
    /\ seq' = SeqStep(t)
    /\ UNCHANGED <<config, phase, client, tiers, dedup, clock, calls, lastSet>>

\* await redisClient.del(...keys) resumes
InvalidateDel(t) ==
    /\ task[t].pc = "inv_del"
    /\ \E o \in RedisOutcomes :
         IF o = "fail"
         THEN /\ task' = [task EXCEPT ![t] = InvThrow([@ EXCEPT !.scan = {}], "redis")]
              /\ UNCHANGED redis
         ELSE /\ redis' = [k \in Keys |-> IF k \in task[t].scan THEN Null ELSE redis[k]]
              /\ task' = [task EXCEPT ![t] =
                            InvAfter([@ EXCEPT !.scan = {}], Cardinality(task[t].scan))]
    /\ seq' = SeqStep(t)
    /\ UNCHANGED <<config, phase, client, rest, lru, lruExp, dedup, clock, calls, lastSet>>

----------------------------------------------------------------------------
(* clearAll *)

ClearStart(t) ==
    /\ Begin(t)
    /\ LET tk == [IdleFrame EXCEPT !.op = "clearAll"] IN
       IF ~enableCache
       THEN /\ task' = [task EXCEPT ![t] = Done(tk)]
            /\ UNCHANGED <<lru, lruExp>>
       ELSE IF currentCacheMode = "redis" /\ redisClient
            THEN /\ task' = [task EXCEPT ![t] = [tk EXCEPT !.pc = "clear_flush"]]
                 /\ UNCHANGED <<lru, lruExp>>
            ELSE /\ lru' = Empty
                 /\ lruExp' = NoExpiry
                 /\ task' = [task EXCEPT ![t] = Done(tk)]
    /\ calls' = calls + 1
    /\ seq' = SeqStart(t)
    /\ UNCHANGED <<config, phase, client, redis, rest, dedup, clock, lastSet>>

\* await redisClient.flushdb() resumes
ClearFlush(t) ==
    /\ task[t].pc = "clear_flush"
    /\ \E o \in RedisOutcomes :
         IF o = "fail"
         THEN /\ task' = [task EXCEPT ![t] =
                    IF Caught("clearAll")
                    THEN Done([@ EXCEPT !.err = @ \cup {"redis"}])
                    ELSE Escape(@, "redis")]
              /\ UNCHANGED <<redis, lru, lruExp>>
         ELSE /\ redis' = Empty
              /\ lru' = Empty
              /\ lruExp' = NoExpiry
              /\ task' = [task EXCEPT ![t] = Done(@)]
    /\ seq' = SeqStep(t)
    /\ UNCHANGED <<config, phase, client, rest, dedup, clock, calls, lastSet>>

----------------------------------------------------------------------------
(* generateCacheKey.  Here a string is the sequence of its UTF-16 code     *)
(* units, and an object is the sequence of its own properties in the order *)
(* the engine enumerates them.                                             *)

MaxParams == 3   \* properties of a params object

\* the property names "10", "9", "B", "a"
ParamNames == {<<49, 48>>, <<57>>, <<66>>, <<97>>}
\* the namespaces "stats", "recent"
Namespaces == {<<115, 116, 97, 116, 115>>, <<114, 101, 99, 101, 110, 116>>}

\* the code units of the JSON texts of JSONstringify
CodeUnits(text) ==
    CASE text = "null" -> <<110, 117, 108, 108>>
      [] text = "0" -> <<48>>
      [] text = "{}" -> <<123, 125>>

\* the comparison of Array.prototype.sort without a comparator: code unit order
RECURSIVE LexLess(_, _)
LexLess(a, b) ==
    IF a = <<>> THEN b # <<>>
    ELSE IF b = <<>> THEN FALSE
    ELSE IF Head(a) # Head(b) THEN Head(a) < Head(b)
    ELSE LexLess(Tail(a), Tail(b))

RECURSIVE InsertSorted(_, _)
InsertSorted(k, sorted) ==
    IF sorted = <<>> THEN <<k>>
    ELSE IF LexLess(k, Head(sorted)) THEN <<k>> \o sorted
    ELSE <<Head(sorted)>> \o InsertSorted(k, Tail(sorted))

\* keys.sort() that leaves the keys as they are
ArraySortKeep(keys) == keys

\* keys.sort()
RECURSIVE ArraySort(_)
ArraySort(keys) ==
    IF keys = <<>> THEN <<>>
    ELSE InsertSorted(Head(keys), ArraySort(Tail(keys)))

\* a property name that is an array index: a canonical decimal numeral
IsArrayIndex(k) ==
    /\ k # <<>>
    /\ \A i \in 1..Len(k) : k[i] \in 48..57
    /\ Len(k) > 1 => k[1] # 48

RECURSIVE ToNumber(_)
ToNumber(k) ==
    IF k = <<>> THEN 0
    ELSE 10 * ToNumber(SubSeq(k, 1, Len(k) - 1)) + (k[Len(k)] - 48)

\* obj[k] = v on an ordinary object: an existing property keeps its place, a
\* new array index goes among the array indices in ascending numeric order, any
\* other new name goes last
Put(obj, k, v) ==
    IF \E i \in 1..Len(obj) : obj[i].k = k
    THEN [i \in 1..Len(obj) |-> IF obj[i].k = k THEN [k |-> k, v |-> v] ELSE obj[i]]
    ELSE IF IsArrayIndex(k)
         THEN LET n == Cardinality({i \in 1..Len(obj) :
                          IsArrayIndex(obj[i].k) /\ ToNumber(obj[i].k) < ToNumber(k)})
              IN SubSeq(obj, 1, n) \o <<[k |-> k, v |-> v]>> \o SubSeq(obj, n + 1, Len(obj))
         ELSE Append(obj, [k |-> k, v |-> v])

\* the object made by defining the entries one after the other
RECURSIVE PutAll(_, _)
PutAll(obj, entries) ==
    IF entries = <<>> THEN obj
    ELSE PutAll(Put(obj, Head(entries).k, Head(entries).v), Tail(entries))

\* { ...acc }
Spread(acc) == PutAll(<<>>, acc)

\* Object.keys(obj)
ObjectKeys(obj) == [i \in 1..Len(obj) |-> obj[i].k]

\* params[key]
Lookup(obj, k) == obj[CHOOSE i \in 1..Len(obj) : obj[i].k = k].v

\* keys.reduce((acc, key) => ({ ...acc, [key]: params[key] }), acc)
RECURSIVE Reduce(_, _, _)
Reduce(acc, keys, params) ==
    IF keys = <<>> THEN acc
    ELSE Reduce(Put(Spread(acc), Head(keys), Lookup(params, Head(keys))),
                Tail(keys), params)

\* JSON.stringify of an object whose names need no escape and whose values are
\* scalars: the members in enumeration order
RECURSIVE Members(_)
Members(obj) ==
    IF obj = <<>> THEN <<>>
    ELSE <<34>> \o Head(obj).k \o <<34, 58>> \o CodeUnits(JSONstringify(Head(obj).v))
         \o (IF Len(obj) > 1 THEN <<44>> ELSE <<>>) \o Members(Tail(obj))

JSONstringifyObject(obj) == <<123>> \o Members(obj) \o <<125>>

\* `audit:${namespace}:${JSON.stringify(sortedParams)}`
GenerateCacheKey(namespace, params) ==
    LET sortedParams == Reduce(<<>>, ArraySort(ObjectKeys(params)), params) IN
        <<97, 117, 100, 105, 116, 58>> \o namespace \o <<58>>
            \o JSONstringifyObject(sortedParams)

\* the property lists a caller can write: distinct names, any order, scalar values
Insertions ==
    {e \in UNION {[1..n -> [k : ParamNames, v : Values]] : n \in 0..MaxParams} :
        \A i, j \in 1..Len(e) : i # j => e[i].k # e[j].k}

\* the module is loaded and a caller, having built params property by
\* property, is about to call generateCacheKey(namespace, params)
InitKey ==
    /\ enableCache \in BOOLEAN
    /\ restUrl = FALSE
    /\ restToken = FALSE
    /\ redisClient = FALSE
    /\ currentCacheMode = IF enableCache THEN "lru" ELSE "disabled"
    /\ startupMessageShown = TRUE
    /\ console = <<>>
    /\ conn = "end"
    /\ retries = 0
    /\ delay = 0
    /\ redis = Empty
    /\ rest = Empty
    /\ lru = Empty
    /\ lruExp = NoExpiry
    /\ fast = [e \in EventIds |-> 0]
    /\ durable = [e \in EventIds |-> NoRecord]
    /\ auditLogs = <<>>
    /\ now = 0
    /\ ticks = 0
    /\ \E namespace \in Namespaces, entries \in Insertions :
          task = [t \in Tasks |->
                    IF t \in Callers
                    THEN [IdleFrame EXCEPT !.op = "generateCacheKey", !.pc = "key_call",
                                           !.ns = namespace, !.params = entries]
                    ELSE IdleFrame]
    /\ calls = 0
    /\ lastSet = [k \in Keys |-> AnyValue]
    /\ seq = [t \in Tasks |-> NoRun]
    /\ phase = "running"

\* generateCacheKey(namespace, params) returns
GenerateCacheKeyCall(t) ==
    /\ task[t].pc = "key_call"
    /\ task' = [task EXCEPT ![t] =
          Done([@ EXCEPT !.key = GenerateCacheKey(task[t].ns,
                                                  PutAll(<<>>, task[t].params))])]
    /\ calls' = calls + 1
    /\ seq' = SeqEvent
    /\ UNCHANGED <<config, phase, client, tiers, dedup, clock, lastSet>>

NextKey == \E t \in Callers : GenerateCacheKeyCall(t)

SpecKey == InitKey /\ [][NextKey]_vars

----------------------------------------------------------------------------
(* The cache façade under connectivity events *)

\* the keys a URL path carries as they are
PlainKeys == {k \in Keys : UrlPathKey(k) = k}

\* one caller of the façade on the plain keys, and the connectivity callbacks
Next ==
    \/ OnConnect
    \/ OnError
    \/ OnClose
    \/ RetryStrategy
    \/ \E t \in Callers, k \in PlainKeys : GetStart(t, k)
    \/ \E t \in Callers : GetRedis(t)
    \/ \E t \in Callers : GetRest(t)
    \/ \E t \in Callers, k \in PlainKeys, v \in Values : SetStart(t, k, v)
    \/ \E t \in Callers : SetRedis(t)
    \/ \E t \in Callers : SetRest(t)
    \/ \E t \in Callers, k \in PlainKeys : DeleteStart(t, k)
    \/ \E t \in Callers : DeleteRedis(t)
    \/ \E t \in Callers : DeleteRest(t)
    \/ \E t \in Callers, p \in Patterns : InvalidateStart(t, p)
    \/ \E t \in Callers : InvalidateKeys(t)
    \/ \E t \in Callers : InvalidateDel(t)
    \/ \E t \in Callers : InvalidateSummariesStart(t)
    \/ \E t \in Callers : InvalidateStatsStart(t)
    \/ \E t \in Callers : InvalidateRecentStart(t)
    \/ \E t \in Callers : ClearStart(t)
    \/ \E t \in Callers : ClearFlush(t)
    \/ \E t \in Callers, k \in PlainKeys : WithCacheStart(t, k)
    \/ \E t \in Callers : WithCacheCompute(t)

Spec == Init /\ [][Next]_vars

\* the client constructor threw at load: Fallback for the whole run, no callback
InitRest == Init /\ enableCache /\ ~redisClient

\* one caller on every key, the HTTP tier and the in-process tier behind it
NextRest ==
    \/ \E t \in Callers, k \in Keys : GetStart(t, k)
    \/ \E t \in Callers : GetRest(t)
    \/ \E t \in Callers, k \in Keys, v \in Values : SetStart(t, k, v)
    \/ \E t \in Callers : SetRest(t)
    \/ \E t \in Callers, k \in Keys : DeleteStart(t, k)
    \/ \E t \in Callers : DeleteRest(t)

SpecRest == InitRest /\ [][NextRest]_vars

\* a text that is not JSON
Malformed == "{oops"

\* the networked tiers are shared: another program, or a truncated write,
\* leaves under key k a payload that is not JSON
ForeignWrite(k) ==
    /\ \/ redis' = [redis EXCEPT ![k] = Malformed] /\ UNCHANGED <<rest, lru, lruExp>>
       \/ rest' = [rest EXCEPT ![k] = Malformed] /\ UNCHANGED <<redis, lru, lruExp>>
    /\ seq' = SeqEvent
    /\ UNCHANGED <<config, phase, client, dedup, clock, task, calls, lastSet>>

\* one reader of tiers that hold foreign payloads
NextForeign ==
    \/ OnConnect
    \/ OnError
    \/ \E k \in PlainKeys : ForeignWrite(k)
    \/ \E t \in Callers, k \in PlainKeys : GetStart(t, k)
    \/ \E t \in Callers : GetRedis(t)
    \/ \E t \in Callers : GetRest(t)
    \/ \E t \in Callers, k \in PlainKeys : WithCacheStart(t, k)
    \/ \E t \in Callers : WithCacheCompute(t)
    \/ \E t \in Callers : SetRedis(t)
    \/ \E t \in Callers : SetRest(t)

SpecForeign == Init /\ [][NextForeign]_vars

----------------------------------------------------------------------------
(* gracefulShutdown *)

\* a signal handler calls gracefulShutdown: up to await cache.disconnect(),
\* which awaits redisClient.quit() when there is a client
GracefulShutdownStart ==
    /\ phase = "running"
    /\ phase' = IF redisClient THEN "quit" ELSE "disconnected"
    /\ seq' = SeqEvent
    /\ UNCHANGED <<config, client, tiers, dedup, clock, task, calls, lastSet>>

\* await redisClient.quit() resumes: the connection is closed and the close
\* callback has run, or quit rejected and the catch exits with status 1
ShutdownQuit ==
    /\ phase = "quit"
    /\ \/ /\ phase' = "disconnected"
          /\ conn' = "end"
          /\ currentCacheMode' = "lru"
          /\ console' = <<>>
          /\ UNCHANGED <<startupMessageShown, retries, delay>>
       \/ /\ phase' = "exited"
          /\ UNCHANGED client
    /\ seq' = SeqEvent
    /\ UNCHANGED <<config, tiers, dedup, clock, task, calls, lastSet>>

\* await prisma.$disconnect() is reached, then resumes: process.exit(0), or
\* process.exit(1) from the catch
ShutdownDatabase ==
    /\ phase = "disconnected"
    /\ phase' = "exited"
    /\ seq' = SeqEvent
    /\ UNCHANGED <<config, client, tiers, dedup, clock, task, calls, lastSet>>

\* a process that has exited takes no step
Alive == phase # "exited"

\* the service while it shuts down: the server keeps answering requests
NextShutdown ==
    \/ Alive /\ OnConnect
    \/ GracefulShutdownStart
    \/ ShutdownQuit
    \/ ShutdownDatabase
    \/ Alive /\ \E t \in Callers, k \in PlainKeys : GetStart(t, k)
    \/ Alive /\ \E t \in Callers : GetRedis(t)
    \/ Alive /\ \E t \in Callers : GetRest(t)
    \/ Alive /\ \E t \in Callers, k \in PlainKeys, v \in Values : SetStart(t, k, v)
    \/ Alive /\ \E t \in Callers : SetRedis(t)
    \/ Alive /\ \E t \in Callers : SetRest(t)

SpecShutdown == Init /\ [][NextShutdown]_vars

----------------------------------------------------------------------------
(* Properties of the cache façade *)

Returned(t, op) == task[t].pc = "done" /\ task[t].op = op

\* t's getCache(k) has returned, and the call t made just before it, with no
\* other call and no callback in between, was setCache(k, v)
SetThenGet(t) ==
    /\ Returned(t, "getCache")
    /\ seq[t].n = 2
    /\ seq[t].prev.op = "setCache"
    /\ seq[t].prev.key = task[t].key

\* C1: in every mode but Disabled, with no tier error, setCache(k, v) of a
\* non-null v followed immediately by getCache(k) returns v
C1_SetGetRoundTrip ==
    \A t \in Tasks :
        (/\ enableCache
         /\ SetThenGet(t)
         /\ seq[t].prev.val # Null
         /\ seq[t].prev.err = {} /\ task[t].err = {})
        => task[t].ret = seq[t].prev.val

\* C2: a getCache(k) that overlaps no setCache(k, .) returns absent or the
\* value of the most recent completed setCache(k, .)
C2_NeverStale ==
    \A t \in Tasks :
        (/\ Returned(t, "getCache")
         /\ ~task[t].amb
         /\ lastSet[task[t].key] # AnyValue)
        => task[t].ret \in {Null, lastSet[task[t].key]}

\* C4: with the cache enabled, when setCache(k, v) has returned the in-process
\* tier holds the serialized v under k
C4_LruHoldsValue ==
    \A t \in Tasks :
        (enableCache /\ Returned(t, "setCache"))
        => lru[task[t].key] = JSONstringify(task[t].val)

FacadeOps == {"getCache", "setCache", "deleteCache", "invalidatePattern", "clearAll"}

TouchesRedis(t) ==
    /\ task'[t].pc \in {"get_redis", "set_redis"}
    /\ task'[t].pc # task[t].pc

\* in Fallback, setCache(k, v) then getCache(k) gives back v and raises nothing
FallbackRoundTrip(t) ==
    (/\ currentCacheMode = "lru"
     /\ SetThenGet(t)
     /\ seq[t].prev.err = {} /\ task[t].err = {})
    => (task[t].ret = seq[t].prev.val /\ ~task[t].raised)

RedisMissed(t) ==
    /\ task[t].op = "getCache" /\ task[t].pc = "get_redis"
    /\ task'[t] # task[t]
    /\ "redis" \notin task'[t].err
    /\ ~Truthy(redis[task[t].key])

\* C27: when the HTTP tier is configured, a getCache(k) that misses on the
\* persistent-connection tier in Primary mode goes on to the HTTP tier, and a
\* getCache(k) that starts in Fallback mode goes to the HTTP tier first; the
\* in-process tier is read only after the HTTP tier has answered
C27_HttpTierBeforeInProcess ==
    [][ \A t \in Callers :
          /\ (RedisMissed(t) /\ currentCacheMode = "redis" /\ RestConfigured)
                => task'[t].pc = "get_rest"
          /\ ( /\ Free(t) /\ task'[t].op = "getCache" /\ calls' # calls
               /\ enableCache /\ currentCacheMode = "lru" /\ RestConfigured )
                => task'[t].pc = "get_rest"
      ]_vars
----------------------------------------------------------------------------
(* Properties of withCache *)

\* the text of k in the networked tier that the mode selects, if any
NetworkedText(k) ==
    IF currentCacheMode = "redis" /\ redisClient THEN redis[k]
    ELSE IF currentCacheMode = "lru" /\ RestConfigured /\ UrlPathKey(k) \in Keys
         THEN rest[UrlPathKey(k)]
         ELSE Null

\* the first hit among the tiers of the mode, deserialized; Null when all miss
FirstHit(k) ==
    IF NetworkedText(k) \notin {Null, ""} THEN JSONparse(NetworkedText(k))
    ELSE IF lru[k] \notin {Null, ""} THEN JSONparse(lru[k])
         ELSE Null

\* no callback has run since t started its current call
Undisturbed(t) == seq[t].n >= 1

\* t's getCache(k) has returned, and the call t made just before it, with
\* nothing in between, was a withCache(k, .) that computed and met no error
ComputeThenGet(t) ==
    /\ Returned(t, "getCache")
    /\ seq[t].n = 2
    /\ seq[t].prev.op = "withCache"
    /\ seq[t].prev.key = task[t].key
    /\ seq[t].prev.comp = 1
    /\ seq[t].prev.err = {} /\ task[t].err = {}

C15_AtMostOneWrite ==
    \A t \in Tasks :
        task[t].op = "withCache" =>
            /\ task[t].wr <= 1
            /\ task[t].comp = 0 => task[t].wr = 0
            /\ task[t].raised => task[t].wr = 0
            /\ (task[t].comp = 1 /\ ~task[t].raised) => task[t].wr = 1

C15_Witness ==
    \E t \in Tasks :
        /\ Returned(t, "withCache")
        /\ task[t].comp = 1 /\ task[t].wr = 1
        /\ lru[task[t].key] = JSONstringify(task[t].ret)

\* C16: a compute that fails makes withCache raise that failure to its
\* caller, and no step of that call changes a cache tier
C16_ComputeFailurePropagates ==
    [][ \A t \in Tasks :
          task'[t].op = "withCache" =>
            /\ "compute" \in task'[t].err <=> task'[t].raised
            /\ task'[t].raised => (task'[t].comp = 1 /\ task'[t].pc = "done")
            /\ (task'[t] # task[t] /\ (task'[t].raised \/ task'[t].comp = 0))
                 => UNCHANGED tiers
      ]_vars

C16_Witness ==
    \E t \in Tasks :
        /\ Returned(t, "withCache") /\ task[t].raised
        /\ "redis" \in task[t].err
        /\ redis[task[t].key] # Null


\* C28: when JSON.parse rejects the payload getCache(k) read from a tier,
\* getCache(k) returns absent and does not raise, and a withCache that met the
\* payload calls compute once, as on a miss
C28_MalformedIsMiss ==
    \A t \in Callers :
        (task[t].pc = "done" /\ "parse" \in task[t].err) =>
            /\ task[t].op = "getCache" => (task[t].ret = Null /\ ~task[t].raised)
            /\ task[t].op = "withCache" =>
                  /\ task[t].comp = 1
                  /\ task[t].raised => "compute" \in task[t].err
                  /\ ~task[t].raised => task[t].ret \in Computed

\* withCache met a malformed payload and returned what it computed
C28_Witness ==
    \E t \in Callers :
        /\ Returned(t, "withCache")
        /\ "parse" \in task[t].err
        /\ ~task[t].raised
        /\ task[t].ret \in Computed
----------------------------------------------------------------------------
(* Properties of the cache mode *)

\* a frame is waiting on a call to a networked tier
AtTier(tk) == tk.pc \notin {"idle", "done", "wc_compute"}

\* C18: with the cache turned off the mode is Disabled in every state and no
\* operation reaches a tier: the tiers stay empty, getCache returns absent,
\* invalidatePattern returns 0 and withCache calls compute on every call
C18_DisabledTouchesNothing ==
    ~enableCache =>
        /\ currentCacheMode = "disabled"
        /\ redis = Empty /\ rest = Empty /\ lru = Empty
        /\ \A t \in Tasks :
              /\ ~AtTier(task[t])
              /\ task[t].err \subseteq {"compute"}
              /\ Returned(t, "getCache") => task[t].ret = Null
              /\ Returned(t, "invalidatePattern") => task[t].cnt = 0
              /\ Returned(t, "withCache") => (task[t].comp = 1 /\ task[t].wr = 1)
                                               \/ task[t].raised

C18_Witness ==
    /\ ~enableCache
    /\ calls >= 2
    /\ \E t \in Tasks :
          /\ Returned(t, "withCache") /\ task[t].comp = 1
          /\ task[t].ret = JsObj
          /\ seq[t].n = 2 /\ seq[t].prev.op = "setCache"
          /\ seq[t].prev.key = task[t].key

\* C19: the mode is Disabled only when the cache is turned off by
\* configuration; with the cache enabled it is never Disabled
C19_DisabledOnlyWhenOff ==
    currentCacheMode = "disabled" => ~enableCache

\* C20: the mode becomes Primary only in the connect callback, and every
\* connect callback leaves it Primary
C20_PrimaryOnlyByConnect ==
    [][ /\ (currentCacheMode' = "redis" /\ currentCacheMode # "redis") => OnConnect
        /\ OnConnect => currentCacheMode' = "redis"
      ]_vars

\* Primary again after a stay in Fallback, where the HTTP tier was written
C20_Witness ==
    /\ currentCacheMode = "redis" /\ conn = "up"
    /\ \E k \in Keys : rest[k] # Null



\* a step of a façade operation: a call starts or a call in flight moves on
FacadeStep == task' # task \/ calls' # calls

\* C21: no step of getCache, setCache, deleteCache, invalidatePattern, clearAll
\* or withCache changes the mode, whatever its outcome; the mode changes only in
\* the connect, error, close and retry-strategy callbacks
C21_OperationsKeepMode ==
    [][ /\ FacadeStep => currentCacheMode' = currentCacheMode
        /\ currentCacheMode' # currentCacheMode =>
              OnConnect \/ OnError \/ OnClose \/ RetryStrategy
      ]_vars

\* an operation has failed on the persistent tier and the mode is still Primary
C21_Witness ==
    \E t \in Tasks :
        /\ task[t].pc = "done"
        /\ "redis" \in task[t].err
        /\ Undisturbed(t)
        /\ currentCacheMode = "redis"

\* a callback of the client runs
Callback == OnConnect \/ OnError \/ OnClose \/ RetryStrategy

\* C22: whatever the sequence of connect, close, error and retry events, the
\* callback that changes the mode writes a line about it, and once the startup
\* banner has been shown no callback writes it again
C22_EveryTransitionLogged ==
    [][ /\ currentCacheMode' # currentCacheMode => console' # <<>>
        /\ (Callback /\ startupMessageShown) =>
              \A i \in DOMAIN console' : console'[i] # "banner"
      ]_vars
----------------------------------------------------------------------------
(* Properties of invalidation *)

\* a call of t has returned without an error, the cache is on and not Disabled,
\* and no callback has fired since the call started
CleanReturn(t) ==
    /\ task[t].pc = "done"
    /\ task[t].err = {}
    /\ Undisturbed(t)
    /\ enableCache
    /\ currentCacheMode # "disabled"

\* C11: in every mode but Disabled, invalidatePattern(p) removes from the tier it
\* scans exactly the keys that match the glob p, leaves the other keys there,
\* and returns the number of keys it removed
C11_RemovesExactlyMatching ==
    \A t \in Tasks :
        (CleanReturn(t) /\ task[t].op = "invalidatePattern") =>
            LET matching == {k \in task[t].had : GlobMatch(task[t].pat, k)} IN
                /\ task[t].cnt = Cardinality(matching)
                /\ Scanned = task[t].had \ matching

\* C12: in Primary mode a getCache(k) that directly follows a completed
\* invalidatePattern(p) which removed an entry, with k matching p, returns absent
C12_AbsentAfterInvalidate ==
    \A t \in Tasks :
        ( /\ CleanReturn(t) /\ task[t].op = "getCache"
          /\ currentCacheMode = "redis"
          /\ seq[t].n = 2
          /\ seq[t].prev.op = "invalidatePattern"
          /\ seq[t].prev.err = {}
          /\ seq[t].prev.cnt >= 1
          /\ GlobMatch(seq[t].prev.pat, task[t].key) )
        => task[t].ret = Null

\* the key is in the namespace audit:{ns}:
InNamespace(k, ns) == Len(k) >= 4 /\ SubSeq(k, 1, 4) = <<"audit", ":", ns, ":">>

NamespaceOf(fn) ==
    CASE fn = "invalidateSummaries" -> "summaries"
      [] fn = "invalidateStats" -> "stats"
      [] fn = "invalidateRecent" -> "recent"

\* C13: in Fallback as in Primary mode, invalidateSummaries, invalidateStats and
\* invalidateRecent leave no entry of their namespace in the tier they scan and
\* return the number of entries of that namespace the tier held
C13_WrappersClearNamespace ==
    \A t \in Tasks :
        (CleanReturn(t) /\ task[t].op \in InvalidateOps \ {"invalidatePattern"}) =>
            LET mine == {k \in task[t].had : InNamespace(k, NamespaceOf(task[t].op))} IN
                /\ task[t].cnt = Cardinality(mine)
                /\ Scanned \cap mine = {}


----------------------------------------------------------------------------
(* Properties of deleteCache and clearAll *)

\* C23: once deleteCache(k) has returned without an error, whatever the mode it
\* ran in, no tier holds k: neither the persistent-connection tier, nor the HTTP
\* tier, nor the in-process tier
C23_DeletedFromEveryTier ==
    \A t \in Callers :
        (Returned(t, "deleteCache") /\ task[t].err = {} /\ enableCache) =>
            /\ redis[task[t].key] = Null
            /\ rest[task[t].key] = Null
            /\ lru[task[t].key] = Null

\* C24: once clearAll() has returned in a mode other than Disabled the in-process
\* tier is empty, also when the flush of the persistent-connection tier failed,
\* and after a flush that succeeded in Primary mode the persistent-connection
\* tier is empty too
C24_ClearAllEmptiesTiers ==
    \A t \in Callers :
        ( /\ Returned(t, "clearAll") /\ Undisturbed(t)
          /\ enableCache /\ currentCacheMode # "disabled" )
        => /\ lru = Empty
           /\ (currentCacheMode = "redis" /\ task[t].err = {}) => redis = Empty

----------------------------------------------------------------------------
(* Properties of gracefulShutdown *)

\* C30: once gracefulShutdown has begun no cache operation that starts reaches
\* a tier and no tier is written; the connection of the persistent-connection
\* tier is closed before the durable store is disconnected, and the process
\* exits last
C30_OrderedRelease ==
    [][ /\ phase # "running" =>
              /\ tiers' = tiers
              /\ \A t \in Callers : calls' # calls => ~AtTier(task'[t])
        /\ (phase' = "disconnected" /\ redisClient) => conn' = "end"
        /\ phase' # phase =>
              \/ phase = "running" /\ phase' \in {"quit", "disconnected"}
              \/ phase = "quit" /\ phase' \in {"disconnected", "exited"}
              \/ phase = "disconnected" /\ phase' = "exited"
      ]_vars
----------------------------------------------------------------------------
(* Properties of generateCacheKey *)

\* the same properties written in another order
Reorderings(entries) ==
    {[i \in 1..Len(entries) |-> entries[f[i]]] : f \in Permutations(1..Len(entries))}

NamesOf(entries) == {entries[i].k : i \in 1..Len(entries)}

\* the names of S in ascending order
Ascending(S, Less(_, _)) ==
    CHOOSE q \in [1..Cardinality(S) -> S] :
        \A i, j \in 1..Cardinality(S) : i < j => Less(q[i], q[j])

NumLess(a, b) == ToNumber(a) < ToNumber(b)

\* audit:{ns}:{JSON of the entries with their names in the given order}
KeyInOrder(namespace, entries, order) ==
    <<97, 117, 100, 105, 116, 58>> \o namespace \o <<58>>
        \o JSONstringifyObject([i \in 1..Len(order) |->
                                  [k |-> order[i], v |-> Lookup(entries, order[i])]])

KeyComputed(t) == task[t].pc = "done" /\ task[t].op = "generateCacheKey"

\* generateCacheKey gives the same key whatever order the properties were written in
OrderInsensitive(t) ==
    \A q \in Reorderings(task[t].params) :
        GenerateCacheKey(task[t].ns, PutAll(<<>>, q)) = task[t].key

\* C17 as stated: the key does not depend on the insertion order and is
\* audit:{ns}:{JSON of params with the names in lexicographic order}
C17_SortedLexicographically ==
    \A t \in Tasks :
        KeyComputed(t) =>
            /\ OrderInsensitive(t)
            /\ task[t].key = KeyInOrder(task[t].ns, task[t].params,
                                        Ascending(NamesOf(task[t].params), LexLess))

\* C17: the key does not depend on the insertion order and is
\* audit:{ns}:{JSON of params}, the names that are array indices first in
\* ascending numeric order, then the other names in lexicographic order
C17_OrderInsensitiveKey ==
    \A t \in Tasks :
        KeyComputed(t) =>
            LET names == NamesOf(task[t].params)
                indices == {k \in names : IsArrayIndex(k)} IN
                /\ OrderInsensitive(t)
                /\ task[t].key = KeyInOrder(task[t].ns, task[t].params,
                                    Ascending(indices, NumLess)
                                        \o Ascending(names \ indices, LexLess))

\* a key was computed for "a", "10" and "9" written in that order
C17_Witness ==
    \E t \in Tasks :
        /\ KeyComputed(t)
        /\ ObjectKeys(task[t].params) = << <<97>>, <<49, 48>>, <<57>> >>
----------------------------------------------------------------------------
(* Dedup guard (dedup.service) *)

SentinelBackfillTtl == 3600     \* { ex: 3600 }
SentinelMarkTtl == 604800       \* { ex: 604800 }
RetentionSeconds == 604800      \* setDate(getDate() + 7)

\* dedup.service's own Upstash client is built
DedupRedis == enableCache /\ restUrl

FastOutcomes == {"ok", "fail"}
DbOutcomes == {"ok", "fail"}

\* the sentinel of e is held and has not expired
SentinelLive(e) == fast[e] > now

\* isDuplicate returns b: to its caller, or into the controller that awaits it
DupAfter(tk, b) ==
    IF tk.op = "isDuplicate" THEN Done([tk EXCEPT !.dup = b])
    ELSE IF b THEN Done([tk EXCEPT !.dup = b, !.resp = "202-duplicate"])
         ELSE [tk EXCEPT !.dup = b, !.pc = "h_create"]

\* a throw inside isDuplicate's try: fail open
DupThrow(tk, e) ==
    IF Caught("isDuplicate")
    THEN DupAfter([tk EXCEPT !.err = @ \cup {e}], FALSE)
    ELSE Escape(tk, e)

\* the body of isDuplicate up to its first await
DupBegin(tk) ==
    IF tk.eventId = "" THEN DupAfter(tk, FALSE)
    ELSE IF DedupRedis THEN [tk EXCEPT !.pc = "dup_get"]
         ELSE [tk EXCEPT !.pc = "dup_find"]

IsDuplicateStart(t, e, svc) ==
    /\ BeginGuard(t)
    /\ task' = [task EXCEPT ![t] =
                  DupBegin([IdleFrame EXCEPT !.op = "isDuplicate", !.eventId = e,
                                             !.sourceService = svc,
                                             !.rec = (e # "" /\ durable[e] # NoRecord)])]
    /\ calls' = calls + 1
    /\ seq' = SeqStart(t)
    /\ UNCHANGED <<config, phase, client, tiers, dedup, clock, lastSet>>

\* a sentinel that only counts for the service that marked the event
DupGetByService(t) ==
    /\ task[t].pc = "dup_get"
    /\ \E o \in FastOutcomes :
         task' = [task EXCEPT ![t] =
            IF o = "fail" THEN DupThrow(@, "fast")
            ELSE IF SentinelLive(@.eventId)
                 THEN DupAfter(@, /\ durable[@.eventId] # NoRecord
                                  /\ durable[@.eventId].sourceService = @.sourceService)
                 ELSE [@ EXCEPT !.pc = "dup_find"]]
    /\ seq' = SeqStep(t)
    /\ UNCHANGED <<config, phase, client, tiers, dedup, clock, calls, lastSet>>

\* await redisClient.get(key) resumes
DupGet(t) ==
    /\ task[t].pc = "dup_get"
    /\ \E o \in FastOutcomes :
         task' = [task EXCEPT ![t] =
            IF o = "fail" THEN DupThrow(@, "fast")
            ELSE IF SentinelLive(@.eventId) THEN DupAfter(@, TRUE)
                 ELSE [@ EXCEPT !.pc = "dup_find"]]
    /\ seq' = SeqStep(t)
    /\ UNCHANGED <<config, phase, client, tiers, dedup, clock, calls, lastSet>>

\* a lookup by event id and source service together
DupFindByService(t) ==
    /\ task[t].pc = "dup_find"
    /\ \E o \in DbOutcomes :
         task' = [task EXCEPT ![t] =
            IF o = "fail" THEN DupThrow(@, "db")
            ELSE IF /\ durable[@.eventId] # NoRecord
                    /\ durable[@.eventId].sourceService = @.sourceService
                 THEN IF DedupRedis THEN [@ EXCEPT !.pc = "dup_backfill"]
                      ELSE DupAfter(@, TRUE)
                 ELSE DupAfter(@, FALSE)]
    /\ seq' = SeqStep(t)
    /\ UNCHANGED <<config, phase, client, tiers, dedup, clock, calls, lastSet>>

\* await prisma.eventDedup.findUnique resumes
DupFind(t) ==
    /\ task[t].pc = "dup_find"
    /\ \E o \in DbOutcomes :
         task' = [task EXCEPT ![t] =
            IF o = "fail" THEN DupThrow(@, "db")
            ELSE IF durable[@.eventId] # NoRecord
                 THEN IF DedupRedis THEN [@ EXCEPT !.pc = "dup_backfill"]
                      ELSE DupAfter(@, TRUE)
                 ELSE DupAfter(@, FALSE)]
    /\ seq' = SeqStep(t)
    /\ UNCHANGED <<config, phase, client, tiers, dedup, clock, calls, lastSet>>

\* a backfill that keeps the sentinel as long as markAsProcessed does
DupBackfillLong(t) ==
    /\ task[t].pc = "dup_backfill"
    /\ \E o \in FastOutcomes :
         IF o = "fail"
         THEN /\ task' = [task EXCEPT ![t] = DupThrow(@, "fast")]
              /\ UNCHANGED fast
         ELSE /\ fast' = [fast EXCEPT ![task[t].eventId] = now + SentinelMarkTtl]
              /\ task' = [task EXCEPT ![t] = DupAfter(@, TRUE)]
    /\ seq' = SeqStep(t)
    /\ UNCHANGED <<config, phase, client, tiers, durable, auditLogs, clock, calls, lastSet>>

\* await redisClient.set(key, '1', { ex: 3600 }) resumes
DupBackfill(t) ==
    /\ task[t].pc = "dup_backfill"
    /\ \E o \in FastOutcomes :
         IF o = "fail"
         THEN /\ task' = [task EXCEPT ![t] = DupThrow(@, "fast")]
              /\ UNCHANGED fast
         ELSE /\ fast' = [fast EXCEPT ![task[t].eventId] = now + SentinelBackfillTtl]
              /\ task' = [task EXCEPT ![t] = DupAfter(@, TRUE)]
    /\ seq' = SeqStep(t)
    /\ UNCHANGED <<config, phase, client, tiers, durable, auditLogs, clock, calls, lastSet>>

\* markAsProcessed returns: to its caller, or into the controller that awaits it
MarkAfter(tk) ==
    IF tk.op = "markAsProcessed" THEN Done(tk)
    ELSE [tk EXCEPT !.pc = "h_inv", !.inv = 0]

\* a markAsProcessed without its try: the throw goes to the caller
MarkThrowRaises(tk, e) == Escape(tk, e)

\* a throw inside markAsProcessed's try
MarkThrow(tk, e) ==
    IF Caught("markAsProcessed")
    THEN MarkAfter([tk EXCEPT !.err = @ \cup {e}])
    ELSE Escape(tk, e)

\* a markAsProcessed that does not test its event id
MarkBeginUnchecked(tk) ==
    [tk EXCEPT !.pc = "mark_create", !.at = now + RetentionSeconds]

\* the body of markAsProcessed up to its first await
MarkBegin(tk) ==
    IF tk.eventId = "" THEN MarkAfter(tk)
    ELSE [tk EXCEPT !.pc = "mark_create", !.at = now + RetentionSeconds]

MarkAsProcessedStart(t, e, svc) ==
    /\ BeginGuard(t)
    /\ task' = [task EXCEPT ![t] =
                  MarkBegin([IdleFrame EXCEPT !.op = "markAsProcessed", !.eventId = e,
                                              !.sourceService = svc])]
    /\ calls' = calls + 1
    /\ seq' = SeqStart(t)
    /\ UNCHANGED <<config, phase, client, tiers, dedup, clock, lastSet>>

\* a create that answers without inserting the record
MarkCreateNoInsert(t) ==
    /\ task[t].pc = "mark_create"
    /\ \E o \in DbOutcomes :
         IF o = "fail"
         THEN task' = [task EXCEPT ![t] = MarkThrow(@, "db")]
         ELSE task' = [task EXCEPT ![t] =
                         IF DedupRedis THEN [@ EXCEPT !.pc = "mark_set"]
                         ELSE MarkAfter(@)]
    /\ seq' = SeqStep(t)
    /\ UNCHANGED <<config, phase, client, tiers, dedup, clock, calls, lastSet>>

\* an upsert in place of the create: an existing record is overwritten
MarkCreateUpsert(t) ==
    /\ task[t].pc = "mark_create"
    /\ \E o \in DbOutcomes :
         IF o = "fail"
         THEN /\ task' = [task EXCEPT ![t] = MarkThrow(@, "db")]
              /\ UNCHANGED durable
         ELSE /\ durable' = [durable EXCEPT ![task[t].eventId] =
                                [sourceService |-> task[t].sourceService,
                                 expiresAt |-> task[t].at]]
              /\ task' = [task EXCEPT ![t] =
                            IF DedupRedis THEN [@ EXCEPT !.pc = "mark_set"]
                            ELSE MarkAfter(@)]
    /\ seq' = SeqStep(t)
    /\ UNCHANGED <<config, phase, client, tiers, fast, auditLogs, clock, calls, lastSet>>

\* await prisma.eventDedup.create resumes; eventId is the table's unique key
MarkCreate(t) ==
    /\ task[t].pc = "mark_create"
    /\ \E o \in DbOutcomes :
         IF o = "fail"
         THEN /\ task' = [task EXCEPT ![t] = MarkThrow(@, "db")]
              /\ UNCHANGED durable
         ELSE IF durable[task[t].eventId] # NoRecord
              THEN /\ task' = [task EXCEPT ![t] = MarkThrow(@, "unique")]
                   /\ UNCHANGED durable
              ELSE /\ durable' = [durable EXCEPT ![task[t].eventId] =
                                     [sourceService |-> task[t].sourceService,
                                      expiresAt |-> task[t].at]]
                   /\ task' = [task EXCEPT ![t] =
                                 IF DedupRedis THEN [@ EXCEPT !.pc = "mark_set"]
                                 ELSE MarkAfter(@)]
    /\ seq' = SeqStep(t)
    /\ UNCHANGED <<config, phase, client, tiers, fast, auditLogs, clock, calls, lastSet>>

\* await redisClient.set(key, '1', { ex: 604800 }) resumes
MarkSet(t) ==
    /\ task[t].pc = "mark_set"
    /\ \E o \in FastOutcomes :
         IF o = "fail"
         THEN /\ task' = [task EXCEPT ![t] = MarkThrow(@, "fast")]
              /\ UNCHANGED fast
         ELSE /\ fast' = [fast EXCEPT ![task[t].eventId] = now + SentinelMarkTtl]
              /\ task' = [task EXCEPT ![t] = MarkAfter(@)]
    /\ seq' = SeqStep(t)
    /\ UNCHANGED <<config, phase, client, tiers, durable, auditLogs, clock, calls, lastSet>>

\* cleanupExpired up to its await: the where clause holds new Date()
CleanupStart(t) ==
    /\ BeginGuard(t)
    /\ task' = [task EXCEPT ![t] =
                  [IdleFrame EXCEPT !.op = "cleanupExpired", !.pc = "cleanup_delete",
                                    !.at = now]]
    /\ calls' = calls + 1
    /\ seq' = SeqStart(t)
    /\ UNCHANGED <<config, phase, client, tiers, dedup, clock, lastSet>>

\* where: { expiresAt: { lte: cutoff } }
ExpiredOrDue(cutoff) ==
    {e \in EventIds : durable[e] # NoRecord /\ durable[e].expiresAt <= cutoff}

\* the records deleteMany({ expiresAt: { lt: cutoff } }) removes
Expired(cutoff) == {e \in EventIds : durable[e] # NoRecord /\ durable[e].expiresAt < cutoff}

\* await prisma.eventDedup.deleteMany resumes
CleanupDelete(t) ==
    /\ task[t].pc = "cleanup_delete"
    /\ \E o \in DbOutcomes :
         IF o = "fail"
         THEN /\ task' = [task EXCEPT ![t] =
                    IF Caught("cleanupExpired")
                    THEN Done([@ EXCEPT !.err = @ \cup {"db"}, !.cnt = 0])
                    ELSE Escape(@, "db")]
              /\ UNCHANGED durable
         ELSE /\ durable' = [e \in EventIds |->
                                IF e \in Expired(task[t].at) THEN NoRecord ELSE durable[e]]
              /\ task' = [u \in Tasks |->
                    IF u = t
                    THEN Done([task[t] EXCEPT !.cnt = Cardinality(Expired(task[t].at))])
                    ELSE IF task[u].eventId \in Expired(task[t].at)
                         THEN [task[u] EXCEPT !.rec = FALSE]   \* history
                         ELSE task[u]]
    /\ seq' = SeqStep(t)
    /\ UNCHANGED <<config, phase, client, tiers, fast, auditLogs, clock, calls, lastSet>>

----------------------------------------------------------------------------
(* The environment of the dedup guard *)

\* time passes
Tick(d) ==
    /\ ticks < MaxTicks
    /\ now' = now + d
    /\ ticks' = ticks + 1
    /\ seq' = SeqEvent
    /\ UNCHANGED <<config, phase, client, tiers, dedup, task, calls, lastSet>>

\* the fast tier drops the sentinel of e (eviction, flush, restart)
FastEvict(e) ==
    /\ fast[e] # 0
    /\ fast' = [fast EXCEPT ![e] = 0]
    /\ seq' = SeqEvent
    /\ UNCHANGED <<config, phase, client, tiers, durable, auditLogs, clock, task, calls, lastSet>>

----------------------------------------------------------------------------
(* createAuditLogHandler *)

\* up to the first await: validation, then isDuplicate when an event id is given
CreateAuditLogHandlerStart(t, valid, e, svc) ==
    /\ BeginRequest(t)
    /\ LET tk == [IdleFrame EXCEPT !.op = "createAuditLogHandler", !.eventId = e,
                                   !.sourceService = svc] IN
       task' = [task EXCEPT ![t] =
                  IF ~valid THEN Done([tk EXCEPT !.resp = "400"])
                  ELSE IF e # "" THEN DupBegin(tk)
                       ELSE [tk EXCEPT !.pc = "h_create"]]
    /\ calls' = calls + 1
    /\ seq' = SeqStart(t)
    /\ UNCHANGED <<config, phase, client, tiers, dedup, clock, lastSet>>

\* a handler that marks the event id although the audit log was not persisted
HandlerCreateMarksAnyway(t) ==
    /\ task[t].pc = "h_create"
    /\ \E o \in DbOutcomes :
         IF o = "fail"
         THEN /\ task' = [task EXCEPT ![t] =
                            IF @.eventId # "" THEN MarkBegin([@ EXCEPT !.err = @ \cup {"db"}])
                            ELSE Escape(@, "db")]
              /\ UNCHANGED auditLogs
         ELSE /\ auditLogs' = Append(auditLogs, [eventId |-> task[t].eventId,
                                                  sourceService |-> task[t].sourceService])
              /\ task' = [task EXCEPT ![t] =
                            IF @.eventId # "" THEN MarkBegin(@)
                            ELSE [@ EXCEPT !.pc = "h_inv", !.inv = 0]]
    /\ seq' = SeqStep(t)
    /\ UNCHANGED <<config, phase, client, tiers, fast, durable, clock, calls, lastSet>>

\* await createAuditLog(...) resumes: prisma.auditLog.create, then markAsProcessed
HandlerCreate(t) ==
    /\ task[t].pc = "h_create"
    /\ \E o \in DbOutcomes :
         IF o = "fail"
         THEN /\ task' = [task EXCEPT ![t] = Escape(@, "db")]
              /\ UNCHANGED auditLogs
         ELSE /\ auditLogs' = Append(auditLogs, [eventId |-> task[t].eventId,
                                                  sourceService |-> task[t].sourceService])
              /\ task' = [task EXCEPT ![t] =
                            IF @.eventId # "" THEN MarkBegin(@)
                            ELSE [@ EXCEPT !.pc = "h_inv", !.inv = 0]]
    /\ seq' = SeqStep(t)
    /\ UNCHANGED <<config, phase, client, tiers, fast, durable, clock, calls, lastSet>>

\* the cache invalidations, one await each, then the 202 response
HandlerInvalidate(t) ==
    /\ task[t].pc = "h_inv"
    /\ IF task[t].inv = 0 THEN InvBegin(t, task[t], PatSummaries)
       ELSE IF task[t].inv = 1 THEN InvBegin(t, task[t], PatStats)
       ELSE IF task[t].inv = 2 THEN InvBegin(t, task[t], PatService(task[t].sourceService))
       ELSE /\ task' = [task EXCEPT ![t] = Done([@ EXCEPT !.resp = "202"])]
            /\ UNCHANGED <<lru, lruExp>>
    /\ seq' = SeqStep(t)
    /\ UNCHANGED <<config, phase, client, redis, rest, dedup, clock, calls, lastSet>>

----------------------------------------------------------------------------
(* The dedup guard and the write path in a running service *)

\* a running service: the connection is up, down or not yet made, and the
\* read handlers may have cached an entry before
InitDedup ==
    /\ enableCache \in BOOLEAN
    /\ restUrl \in BOOLEAN
    /\ restToken = restUrl
    /\ \/ /\ ~enableCache
          /\ redisClient = FALSE
          /\ currentCacheMode = "disabled"
          /\ conn = "end"
          /\ redis = Empty /\ lru = Empty
          /\ lruExp = NoExpiry
       \/ /\ enableCache
          /\ redisClient = TRUE
          /\ \/ currentCacheMode = "redis" /\ conn = "up"
             \/ currentCacheMode = "lru" /\ conn = "down"
          /\ redis = [k \in Keys |-> JSONstringify(JsObj)]
          /\ lru = [k \in Keys |-> JSONstringify(JsObj)]
          /\ lruExp = [k \in Keys |-> DefaultTtl]
    /\ startupMessageShown = TRUE
    /\ console = <<>>
    /\ retries = 0
    /\ delay = 0
    /\ rest = Empty
    /\ fast = [e \in EventIds |-> 0]
    /\ durable = [e \in EventIds |-> NoRecord]
    /\ auditLogs = <<>>
    /\ now = 0
    /\ ticks = 0
    /\ task = [t \in Tasks |-> IdleFrame]
    /\ calls = 0
    /\ lastSet = [k \in Keys |-> AnyValue]
    /\ seq = [t \in Tasks |-> NoRun]
    /\ phase = "running"

NextDedup ==
    \/ \E d \in {SentinelBackfillTtl, RetentionSeconds} : Tick(d)
    \/ \E e \in EventIds : FastEvict(e)
    \/ \E t \in Callers, e \in EventIds \cup {""}, svc \in Services :
          IsDuplicateStart(t, e, svc)
    \/ \E t \in Callers : DupGet(t)
    \/ \E t \in Callers : DupFind(t)
    \/ \E t \in Callers : DupBackfill(t)
    \/ \E t \in Callers, e \in EventIds \cup {""}, svc \in Services :
          MarkAsProcessedStart(t, e, svc)
    \/ \E t \in Callers : MarkCreate(t)
    \/ \E t \in Callers : MarkSet(t)
    \/ \E t \in Callers : CleanupStart(t)
    \/ \E t \in Callers : CleanupDelete(t)

SpecDedup == InitDedup /\ [][NextDedup]_vars

\* a running service whose cache is in Primary mode; dedup.service has its
\* fast tier or not
InitGuards == InitDedup /\ enableCache /\ currentCacheMode = "redis"

\* two callers of the dedup service at once, and the clock
NextGuards ==
    \/ Tick(RetentionSeconds)
    \/ \E t \in Tasks, e \in EventIds : IsDuplicateStart(t, e, "finance")
    \/ \E t \in Tasks : DupGet(t)
    \/ \E t \in Tasks : DupFind(t)
    \/ \E t \in Tasks : DupBackfill(t)
    \/ \E t \in Tasks, e \in EventIds, svc \in Services : MarkAsProcessedStart(t, e, svc)
    \/ \E t \in Tasks : MarkCreate(t)
    \/ \E t \in Tasks : MarkSet(t)
    \/ \E t \in Tasks : CleanupStart(t)
    \/ \E t \in Tasks : CleanupDelete(t)

SpecGuards == InitGuards /\ [][NextGuards]_vars

----------------------------------------------------------------------------
(* Properties of the dedup guard *)

\* C7 as stated: a record exists and the durable tier did not fail, so
\* isDuplicate returns true, whatever the fast tier did
C7_TrueWhateverFastTier ==
    \A t \in Tasks :
        (/\ Returned(t, "isDuplicate")
         /\ task[t].rec
         /\ "db" \notin task[t].err)
        => task[t].dup

\* C7: when a record exists isDuplicate returns true if no tier raised (the
\* fast tier not configured, empty, evicted or answering), and false if the
\* get or the backfill set of the fast tier raised
C7_TrueUnlessFastTierRaises ==
    \A t \in Tasks :
        (Returned(t, "isDuplicate") /\ task[t].rec) =>
            /\ task[t].err = {} => task[t].dup
            /\ "fast" \in task[t].err => ~task[t].dup

\* the sentinel was gone, the durable tier answered and the sentinel is back
C7_Witness ==
    \E t \in Tasks :
        /\ Returned(t, "isDuplicate") /\ task[t].rec
        /\ task[t].err = {} /\ task[t].dup
        /\ DedupRedis
        /\ fast[task[t].eventId] = now + SentinelBackfillTtl
        /\ durable[task[t].eventId].sourceService # task[t].sourceService

\* t's isDuplicate(e, .) has returned, and the call t made just before it,
\* with nothing in between, was markAsProcessed(e, .) with no tier failure
MarkThenCheck(t) ==
    /\ Returned(t, "isDuplicate")
    /\ seq[t].n = 2
    /\ seq[t].prev.op = "markAsProcessed"
    /\ seq[t].prev.eventId = task[t].eventId
    /\ task[t].eventId # ""
    /\ seq[t].prev.err \subseteq {"unique"}
    /\ task[t].err = {}

\* C8: isDuplicate(e, .) right after a markAsProcessed(e, .) that met no tier
\* failure returns true, with or without the fast tier
C8_MarkThenDuplicate ==
    \A t \in Tasks : MarkThenCheck(t) => task[t].dup

C8_Witness ==
    \E t \in Tasks :
        /\ MarkThenCheck(t) /\ task[t].dup
        /\ ~DedupRedis
        /\ seq[t].prev.err = {}
        /\ seq[t].prev.sourceService = task[t].sourceService

\* C9: isDuplicate never raises, and returns false whenever one of its tier
\* calls raised
C9_FailOpen ==
    \A t \in Tasks :
        task[t].op = "isDuplicate" =>
            /\ ~task[t].raised
            /\ (Returned(t, "isDuplicate") /\ task[t].err # {}) => ~task[t].dup

C9_Witness ==
    \E t \in Tasks :
        /\ Returned(t, "isDuplicate")
        /\ "db" \in task[t].err
        /\ task[t].rec /\ ~task[t].dup /\ ~task[t].raised

\* a guard call with the empty event id
EmptyIdCall(tk) == tk.op \in {"isDuplicate", "markAsProcessed"} /\ tk.eventId = ""

\* C10: isDuplicate and markAsProcessed with the empty event id return in
\* their first step, before any call on a tier: isDuplicate answers false,
\* nothing is raised, and the records and sentinels are as they were
C10_EmptyIdNoOp ==
    [][ \A t \in Tasks :
          EmptyIdCall(task'[t]) =>
            /\ task'[t].pc = "done"
            /\ ~task'[t].dup /\ ~task'[t].raised /\ task'[t].err = {}
            /\ calls' # calls => UNCHANGED <<fast, durable>>
      ]_vars

C10_Witness ==
    \E t \in Tasks :
        /\ EmptyIdCall(task[t]) /\ task[t].op = "markAsProcessed"
        /\ task[t].pc = "done"
        /\ \A e \in EventIds : durable[e] = NoRecord /\ fast[e] = 0

\* C32: while no tier raises, isDuplicate(e, .) returns true on a live sentinel
\* without asking the durable tier; on a sentinel miss it asks the durable tier
\* and, when the record exists, sets a sentinel that expires one hour later and
\* returns true; when neither tier holds e it returns false; it never changes
\* the durable tier and changes the fast tier only by that backfill
C32_TieredLookup ==
    /\ [][ \A t \in Callers :
             LET a == task[t]
                 b == task'[t]
                 e == task[t].eventId IN
             (a.op = "isDuplicate" /\ InFlight(t) /\ b # a /\ b.err = a.err) =>
                 /\ durable' = durable
                 /\ a.pc # "dup_backfill" => fast' = fast
                 /\ a.pc = "dup_get" =>
                       IF SentinelLive(e) THEN b.pc = "done" /\ b.dup
                       ELSE b.pc = "dup_find"
                 /\ a.pc = "dup_find" =>
                       IF durable[e] = NoRecord THEN b.pc = "done" /\ ~b.dup
                       ELSE IF DedupRedis THEN b.pc = "dup_backfill"
                       ELSE b.pc = "done" /\ b.dup
                 /\ a.pc = "dup_backfill" =>
                       /\ b.pc = "done" /\ b.dup
                       /\ fast' = [fast EXCEPT ![e] = now + SentinelBackfillTtl]
          ]_vars
    /\ [](\A t \in Callers :
            ( /\ Returned(t, "isDuplicate") /\ task[t].eventId # ""
              /\ task[t].err = {} /\ Undisturbed(t) )
            => (task[t].dup <=> (task[t].rec \/ SentinelLive(task[t].eventId))))

\* a sentinel outlived its record: isDuplicate answered true from the fast tier
\* alone
C32_Witness ==
    \E t \in Callers :
        /\ Returned(t, "isDuplicate") /\ task[t].err = {} /\ Undisturbed(t)
        /\ task[t].dup
        /\ ~task[t].rec
        /\ SentinelLive(task[t].eventId)

\* C36: isDuplicate(e, .) returns true only while the durable tier holds a
\* record of e whose expiresAt has not passed
C36_TrueOnlyWhileRecordLive ==
    [][ \A t \in Tasks :
          ( /\ task[t].op = "isDuplicate" /\ InFlight(t)
            /\ task'[t].pc = "done" /\ task'[t].dup )
          => /\ durable[task[t].eventId] # NoRecord
             /\ durable[task[t].eventId].expiresAt >= now ]_vars

\* t's isDuplicate(e, s) has returned, and the call t made just before it, with
\* nothing in between, was isDuplicate(e, s') for another source service; no
\* tier failed in either
TwoSources(t) ==
    /\ Returned(t, "isDuplicate")
    /\ seq[t].n = 2
    /\ seq[t].prev.op = "isDuplicate"
    /\ task[t].eventId # ""
    /\ seq[t].prev.eventId = task[t].eventId
    /\ seq[t].prev.sourceService # task[t].sourceService
    /\ seq[t].prev.err = {} /\ task[t].err = {}

\* C39: isDuplicate(e, s) and isDuplicate(e, s') give the same answer on the
\* same dedup state, and an event id marked by one source service is a
\* duplicate for another
C39_SourceServiceIrrelevant ==
    \A t \in Tasks :
        /\ TwoSources(t) => task[t].dup = seq[t].prev.dup
        /\ (MarkThenCheck(t) /\ seq[t].prev.sourceService # task[t].sourceService)
              => task[t].dup

\* an event id marked by one service was reported as a duplicate to that
\* service and then to the other one
C39_Witness ==
    \E t \in Tasks :
        /\ TwoSources(t) /\ task[t].dup
        /\ durable[task[t].eventId] # NoRecord
        /\ durable[task[t].eventId].sourceService = seq[t].prev.sourceService


\* the records a step removes from the durable tier
Removed == {e \in EventIds : durable[e] # NoRecord /\ durable'[e] = NoRecord}

\* C25: a record leaves the durable tier only when its expiresAt is strictly
\* before the current time; a cleanupExpired() that returns has removed exactly
\* the records whose expiresAt is strictly before the time it was called at and
\* returns their number, or, on a durable-tier error, has removed nothing and
\* returns 0; it never raises, whatever runs beside it
C25_CleanupOnlyExpired ==
    [][ /\ \A e \in Removed : durable[e].expiresAt < now
        /\ \A t \in Tasks :
              (task[t].pc = "cleanup_delete" /\ task'[t].pc = "done") =>
                  /\ ~task'[t].raised
                  /\ task'[t].cnt = Cardinality(Removed)
                  /\ Removed = IF "db" \in task'[t].err THEN {}
                               ELSE {e \in EventIds :
                                        /\ durable[e] # NoRecord
                                        /\ durable[e].expiresAt < task[t].at}
      ]_vars

\* cleanupExpired has removed a record while another call was in flight
C25_Witness ==
    \E t, u \in Tasks :
        /\ Returned(t, "cleanupExpired")
        /\ task[t].cnt = 1
        /\ InFlight(u)
        /\ task[u].op \in {"isDuplicate", "markAsProcessed"}

\* both callers have returned from markAsProcessed(e, .) and the durable tier
\* answered each of them
BothMarked(t, u) ==
    /\ t # u
    /\ Returned(t, "markAsProcessed") /\ Returned(u, "markAsProcessed")
    /\ task[t].eventId # "" /\ task[t].eventId = task[u].eventId
    /\ "db" \notin task[t].err \cup task[u].err

\* C26: when two markAsProcessed(e, .) calls have both returned, the record of
\* e exists and neither call raised; a create that finds the record of e, even
\* one made while the call was waiting, fails on the unique key, the failure is
\* swallowed and the record stays as it is; no step changes the sourceService
\* or the expiresAt of a record
C26_RaceKeepsOneRecord ==
    /\ [](\A t, u \in Tasks :
            BothMarked(t, u) =>
                /\ durable[task[t].eventId] # NoRecord
                /\ ~task[t].raised /\ ~task[u].raised)
    /\ [][ /\ \A e \in EventIds :
                durable[e] # NoRecord => durable'[e] \in {durable[e], NoRecord}
           /\ \A t \in Tasks :
                ( /\ task[t].pc = "mark_create" /\ task'[t].pc # "mark_create"
                  /\ durable[task[t].eventId] # NoRecord )
                => /\ task'[t].err \cap {"unique", "db"} # {}
                   /\ ~task'[t].raised
                   /\ durable' = durable
         ]_vars

\* one call lost the race on the unique key while the call that created the
\* record was still running
C26_Witness ==
    \E t, u \in Tasks :
        /\ Returned(t, "markAsProcessed") /\ "unique" \in task[t].err
        /\ task[u].op = "markAsProcessed" /\ task[u].pc = "mark_set"
        /\ task[u].eventId = task[t].eventId
        /\ task[u].sourceService # task[t].sourceService
        /\ durable[task[u].eventId].sourceService = task[u].sourceService
----------------------------------------------------------------------------
(* Concurrent write requests *)

NextWrite ==
    \/ \E t \in Tasks, valid \in BOOLEAN, e \in EventIds \cup {""}, svc \in Services :
          CreateAuditLogHandlerStart(t, valid, e, svc)
    \/ \E t \in Tasks : DupGet(t)
    \/ \E t \in Tasks : DupFind(t)
    \/ \E t \in Tasks : DupBackfill(t)
    \/ \E t \in Tasks : HandlerCreate(t)
    \/ \E t \in Tasks : MarkCreate(t)
    \/ \E t \in Tasks : MarkSet(t)
    \/ \E t \in Tasks : HandlerInvalidate(t)
    \/ \E t \in Tasks : InvalidateKeys(t)
    \/ \E t \in Tasks : InvalidateDel(t)

SpecWrite == InitDedup /\ [][NextWrite]_vars

\* one write request at a time
NextRequest ==
    \/ \E t \in Callers, valid \in BOOLEAN, e \in EventIds \cup {""}, svc \in Services :
          CreateAuditLogHandlerStart(t, valid, e, svc)
    \/ \E t \in Callers : DupGet(t)
    \/ \E t \in Callers : DupFind(t)
    \/ \E t \in Callers : DupBackfill(t)
    \/ \E t \in Callers : HandlerCreate(t)
    \/ \E t \in Callers : MarkCreate(t)
    \/ \E t \in Callers : MarkSet(t)
    \/ \E t \in Callers : HandlerInvalidate(t)
    \/ \E t \in Callers : InvalidateKeys(t)
    \/ \E t \in Callers : InvalidateDel(t)

SpecRequest == InitDedup /\ [][NextRequest]_vars

----------------------------------------------------------------------------
(* triggerAggregationHandler *)

\* POST /api/summaries/aggregate: without dateFrom and dateTo it is refused,
\* otherwise it awaits triggerManualAggregation
TriggerAggregationHandlerStart(t, valid) ==
    /\ Begin(t)
    /\ LET tk == [IdleFrame EXCEPT !.op = "triggerAggregationHandler"] IN
       task' = [task EXCEPT ![t] =
                  IF ~valid THEN Done([tk EXCEPT !.resp = "400"])
                  ELSE [tk EXCEPT !.pc = "agg_run"]]
    /\ calls' = calls + 1
    /\ seq' = SeqStart(t)
    /\ UNCHANGED <<config, phase, client, tiers, dedup, clock, lastSet>>

\* await triggerManualAggregation(...) resumes: a throw goes to the catch
AggregationRun(t) ==
    /\ task[t].pc = "agg_run"
    /\ \E o \in DbOutcomes :
         task' = [task EXCEPT ![t] =
                    IF o = "fail" THEN Escape(@, "db")
                    ELSE [@ EXCEPT !.pc = "agg_inv", !.inv = 0]]
    /\ seq' = SeqStep(t)
    /\ UNCHANGED <<config, phase, client, tiers, dedup, clock, calls, lastSet>>

\* await cache.invalidateSummaries(); await cache.invalidateStats(); then the
\* success response
AggregationInvalidate(t) ==
    /\ task[t].pc = "agg_inv"
    /\ IF task[t].inv = 0
       THEN InvBegin(t, [task[t] EXCEPT !.pats = @ \cup {PatSummaries}], PatSummaries)
       ELSE IF task[t].inv = 1
            THEN InvBegin(t, [task[t] EXCEPT !.pats = @ \cup {PatStats}], PatStats)
       ELSE /\ task' = [task EXCEPT ![t] = Done([@ EXCEPT !.resp = "200"])]
            /\ UNCHANGED <<lru, lruExp>>
    /\ seq' = SeqStep(t)
    /\ UNCHANGED <<config, phase, client, redis, rest, dedup, clock, calls, lastSet>>

NextAggregate ==
    \/ \E t \in Callers, valid \in BOOLEAN : TriggerAggregationHandlerStart(t, valid)
    \/ \E t \in Callers : AggregationRun(t)
    \/ \E t \in Callers : AggregationInvalidate(t)
    \/ \E t \in Callers : InvalidateKeys(t)
    \/ \E t \in Callers : InvalidateDel(t)

SpecAggregate == InitDedup /\ [][NextAggregate]_vars

----------------------------------------------------------------------------
(* Reads and writes of the in-process tier while time passes *)

\* the task of the reading request and the task of the writing one
Reader == 1
Writer == 2

\* the seconds between two reads of a key
ReadEvery == 200

\* ENABLE_CACHE on, no REST endpoint, new Redis(...) threw: every call is
\* served by the in-process tier
InitTtl == Init /\ enableCache /\ ~redisClient /\ ~restUrl

NextTtl ==
    \/ Tick(ReadEvery)
    \/ \E v \in Values : SetStart(Writer, KeyStatsA, v)
    \/ GetStart(Reader, KeyStatsA)

SpecTtl == InitTtl /\ [][NextTtl]_vars

----------------------------------------------------------------------------
(* A read handler beside a write request *)

\* the service is up with nothing cached yet
InitReadWrite ==
    /\ enableCache = TRUE
    /\ restUrl \in BOOLEAN
    /\ restToken = restUrl
    /\ redisClient = TRUE
    /\ \/ currentCacheMode = "redis" /\ conn = "up"
       \/ currentCacheMode = "lru" /\ conn = "down"
    /\ startupMessageShown = TRUE
    /\ console = <<>>
    /\ retries = 0
    /\ delay = 0
    /\ redis = Empty /\ rest = Empty /\ lru = Empty
    /\ lruExp = NoExpiry
    /\ fast = [e \in EventIds |-> 0]
    /\ durable = [e \in EventIds |-> NoRecord]
    /\ auditLogs = <<>>
    /\ now = 0
    /\ ticks = 0
    /\ task = [t \in Tasks |-> IdleFrame]
    /\ calls = 0
    /\ lastSet = [k \in Keys |-> AnyValue]
    /\ seq = [t \in Tasks |-> NoRun]
    /\ phase = "running"

\* what getSummaryStats(user, serviceName) reads from the durable store: the
\* statistics of no rows, or of the rows written so far
GetSummaryStats == IF auditLogs = <<>> THEN JsZero ELSE JsObj

\* getSummaryStatsHandler's fetchFunction resolves with what it read, or rejects
WithCacheGetSummaryStats(t) ==
    /\ task[t].pc = "wc_compute"
    /\ \E r \in {GetSummaryStats, "reject"} :
         IF r = "reject"
         THEN /\ task' = [task EXCEPT ![t] =
                    Escape([@ EXCEPT !.comp = @ + 1], "compute")]
              /\ UNCHANGED <<lru, lruExp, lastSet>>
         ELSE SetBegin(t, [task[t] EXCEPT !.comp = @ + 1, !.val = r, !.wr = @ + 1])
    /\ seq' = SeqStep(t)
    /\ UNCHANGED <<config, phase, client, redis, rest, dedup, clock, calls>>

\* GET /api/summaries/stats on one task, POST of an audit log on the other
NextReadWrite ==
    \/ WithCacheStart(Reader, KeyStatsA)
    \/ GetRedis(Reader)
    \/ GetRest(Reader)
    \/ WithCacheGetSummaryStats(Reader)
    \/ SetRedis(Reader)
    \/ SetRest(Reader)
    \/ \E valid \in BOOLEAN, e \in EventIds \cup {""}, svc \in Services :
          CreateAuditLogHandlerStart(Writer, valid, e, svc)
    \/ DupGet(Writer)
    \/ DupFind(Writer)
    \/ DupBackfill(Writer)
    \/ HandlerCreate(Writer)
    \/ MarkCreate(Writer)
    \/ MarkSet(Writer)
    \/ HandlerInvalidate(Writer)
    \/ InvalidateKeys(Writer)
    \/ InvalidateDel(Writer)

SpecReadWrite == InitReadWrite /\ [][NextReadWrite]_vars

\* the audit-log rows persisted for event id e
RowsOf(e) == {i \in 1..Len(auditLogs) : auditLogs[i].eventId = e}

\* every request made so far is still in its frame, and none met a failure
\* of a dedup tier
DedupHealthy ==
    /\ calls = Cardinality({t \in Tasks : task[t].pc # "idle"})
    /\ \A t \in Tasks : task[t].err \cap {"fast", "db"} = {}

\* C3: with both dedup tiers healthy, at most one audit-log row is persisted
\* for a non-empty event id
C3_AtMostOneRow ==
    DedupHealthy => \A e \in EventIds : Cardinality(RowsOf(e)) <= 1

\* t's request is inside isDuplicate
InDuplicateCheck(t) ==
    task[t].op = "createAuditLogHandler" /\ task[t].pc \in {"dup_get", "dup_find", "dup_backfill"}

\* t's request is inside markAsProcessed
InMark(t) ==
    task[t].op = "createAuditLogHandler" /\ task[t].pc \in {"mark_create", "mark_set"}

\* C29: a failure of a dedup tier never fails the write request: when a
\* lookup of isDuplicate raises the request goes on to persist the audit log,
\* when the create or the set of markAsProcessed raises the request goes on to
\* the invalidations, and a request whose audit log was persisted is answered
\* with the success response
C29_DedupFailureKeepsWrite ==
    [][ \A t \in Callers :
          /\ (InDuplicateCheck(t) /\ task'[t].err # task[t].err)
                => task'[t].pc = "h_create"
          /\ (InMark(t) /\ task'[t].err # task[t].err)
                => (task'[t].pc = "h_inv" /\ ~task'[t].raised)
          /\ (task[t].op = "createAuditLogHandler" /\ task'[t].resp = "500")
                => (task[t].pc = "h_create" /\ auditLogs' = auditLogs)
          /\ auditLogs' # auditLogs
                => task'[t].pc \in {"mark_create", "h_inv"}
          /\ ( /\ task[t].op = "createAuditLogHandler"
               /\ task[t].pc \in {"h_inv", "inv_keys", "inv_del"}
               /\ task'[t].pc = "done" )
                => task'[t].resp = "202"
      ]_vars

\* a request met a failure of the fast tier and of the durable dedup tier, its
\* audit log is persisted and it was answered with the success response
C29_Witness ==
    \E t \in Callers :
        /\ Returned(t, "createAuditLogHandler")
        /\ task[t].resp = "202"
        /\ {"fast", "db"} \subseteq task[t].err
        /\ RowsOf(task[t].eventId) # {}

\* the stage of a write request at a position of its frame: 1 the duplicate
\* check, 2 the persisting of the audit log, 3 the marking, 4 the
\* invalidations, 5 the response sent
Stage(pc) ==
    CASE pc \in {"dup_get", "dup_find", "dup_backfill"} -> 1
      [] pc = "h_create" -> 2
      [] pc \in {"mark_create", "mark_set"} -> 3
      [] pc \in {"h_inv", "inv_keys", "inv_del"} -> 4
      [] OTHER -> 5

\* C31: a write request with event id e goes through the duplicate check, the
\* persisting of the audit log, the marking of e and the invalidations in that
\* order: e is marked only after the audit log was persisted, invalidation
\* starts only after the marking, the dedup records change only while marking
\* and the cache tiers only while invalidating; a request answered as a
\* duplicate or with 500 has marked nothing and invalidated nothing
C31_WriteRequestOrder ==
    [][ \A t \in Callers :
          LET a == task[t]
              b == task'[t] IN
          /\ ( /\ Free(t) /\ calls' # calls /\ b.op = "createAuditLogHandler"
               /\ b.eventId # "" /\ b.resp = "none" )
                => Stage(b.pc) = 1
          /\ (a.op = "createAuditLogHandler" /\ InFlight(t) /\ b # a) =>
                /\ Stage(b.pc) >= Stage(a.pc)
                /\ (Stage(a.pc) = 1 /\ Stage(b.pc) = 2) => ~b.dup
                /\ (Stage(a.pc) # 3 /\ Stage(b.pc) = 3)
                      => (Stage(a.pc) = 2 /\ auditLogs' # auditLogs)
                /\ (Stage(a.pc) < 4 /\ Stage(b.pc) = 4)
                      => \/ Stage(a.pc) = 3
                         \/ a.eventId = "" /\ Stage(a.pc) = 2 /\ auditLogs' # auditLogs
                /\ auditLogs' # auditLogs => Stage(a.pc) = 2
                /\ durable' # durable => Stage(a.pc) = 3
                /\ (redis' # redis \/ lru' # lru) => Stage(a.pc) = 4
                /\ b.resp \in {"202-duplicate", "500"}
                      => /\ Stage(a.pc) <= 2
                         /\ b.inv = 0
                         /\ durable' = durable /\ redis' = redis /\ lru' = lru
      ]_vars

\* a request with an event id went through the four stages and was answered
C31_Witness ==
    \E t \in Callers :
        /\ Returned(t, "createAuditLogHandler")
        /\ task[t].eventId # ""
        /\ task[t].resp = "202"
        /\ task[t].inv = 3
        /\ durable[task[t].eventId] # NoRecord
        /\ RowsOf(task[t].eventId) # {}


-----------------------------------------------------------------------------
(* Properties of the reconnect budget *)

\* C33: retryStrategy schedules at most MaxRetryTimes reconnect attempts in a
\* row, each after a pause of at most RetryCapMs that is longer than the pause
\* before the previous attempt; the invocation after the last attempt sets the
\* mode to 'lru' and returns null, and from then on the connection stays ended
\* (no connect event) and the mode stays 'lru'
C33_BoundedRetry ==
    /\ [](retries <= MaxRetryTimes /\ delay <= RetryCapMs)
    /\ [][ (conn = "down" /\ conn' = "wait") =>
              /\ retries' = retries + 1
              /\ delay' > 0
              /\ retries > 0 => delay' > delay ]_vars
    /\ [][ (conn = "down" /\ conn' = "end") =>
              /\ retries = MaxRetryTimes
              /\ delay' = StopRetrying
              /\ currentCacheMode' = "lru" ]_vars
    /\ [](delay = StopRetrying => conn = "end" /\ currentCacheMode = "lru")
    /\ [][ delay = StopRetrying => delay' = StopRetrying ]_vars

\* the budget was used up and the facade went on serving calls
C33_Witness ==
    /\ delay = StopRetrying
    /\ retries = MaxRetryTimes
    /\ \E t \in Callers : Returned(t, "getCache") /\ seq[t].n >= 1

-----------------------------------------------------------------------------
(* Properties of a write that spans a mode change *)

\* C34: one setCache(k, v) call writes at most one networked tier
C34_OneNetworkedTier ==
    \A t \in Tasks :
        task[t].op = "setCache" => Cardinality(task[t].net) <= 1

-----------------------------------------------------------------------------
(* Properties of a read handler beside a write request *)

\* the statistics of the empty store, as the tiers hold them
PreWrite == JSONstringify(JsZero)

\* a write request has persisted its row, run its invalidations and answered
WriteInvalidated ==
    /\ Returned(Writer, "createAuditLogHandler")
    /\ task[Writer].resp = "202"
    /\ auditLogs # <<>>

\* C35: once a write request has completed its invalidation, no tier takes in
\* a value that a withCache computed from the store as it was before the write
C35_LateSetDoesNotSurvive ==
    [][ WriteInvalidated =>
           \A k \in Keys :
              /\ redis'[k] = PreWrite => redis[k] = PreWrite
              /\ rest'[k] = PreWrite => rest[k] = PreWrite
              /\ lru'[k] = PreWrite => lru[k] = PreWrite ]_vars

-----------------------------------------------------------------------------
(* Properties of the time to live *)

\* C37: a getCache(k) that returns a value returns it at most the ttl (here the
\* default one) after the setCache(k, .) that wrote it
C37_NeverServedPastTtl ==
    [][ ( /\ calls' # calls /\ task'[Writer] = task[Writer]
          /\ task'[Reader].op = "getCache" /\ task'[Reader].pc = "done"
          /\ task'[Reader].ret # Null )
        => now <= task[Writer].at + DefaultTtl ]_vars

-----------------------------------------------------------------------------
(* Properties of the aggregation trigger *)

\* a key of the namespace audit:{ns}:, as generateUserCacheKey builds it
SampleKey(ns) == <<"audit", ":", ns, ":", "a">>

\* the namespaces the read handlers fill from the summary table
SummaryNamespaces == {"summaries", "stats", "recent"}

\* C38: a triggerAggregationHandler that answered with success, no tier having
\* failed, has invalidated
\* a pattern that covers each of the namespaces summaries, stats and recent
C38_AggregationClearsEveryNamespace ==
    \A t \in Tasks :
        ( /\ Returned(t, "triggerAggregationHandler") /\ task[t].resp = "200"
          /\ enableCache /\ currentCacheMode = "redis" /\ task[t].err = {} ) =>
            \A ns \in SummaryNamespaces :
                \E p \in task[t].pats : GlobMatch(p, SampleKey(ns))

====
